---- MODULE Spec2Model ----
(***************************************************************************)
(* Model of the dex-contacts memo synchronisation core: content-block      *)
(* detection, content hashing, the inline %%dex:...%% annotation and the   *)
(* sync orchestrator (MemoManager.syncContactMemo) with the remote create  *)
(* and update calls of DexApiClient.                                        *)
(*                                                                         *)
(* Text is a sequence of lexemes.  A lexeme is a one-character string or   *)
(* one of the literal atoms of AtomChars (a fixed multi-character piece of *)
(* the annotation or link syntax).  Every lexeme expands to its characters *)
(* (Chars), and characters to their UTF-16 code (CharCode), so hashing and *)
(* character classes work on the real characters.  The texts of the model  *)
(* hold no lone "%" and no annotation opener inside an unterminated        *)
(* annotation, so a pattern never matches across a lexeme border.  The     *)
(* "i" flag of the link patterns is not modelled: the texts hold each      *)
(* literal in one case only.                                               *)
(***************************************************************************)
EXTENDS Integers, Sequences, FiniteSets, TLC

\* ------------------------------------------------------------------------
\* Characters and lexemes
\* ------------------------------------------------------------------------

\* The printable ASCII characters in code order, from code 32 (space); the
\* grave accent (code 96) is written GRAVE and is used in no text.
Printable ==
  << " ", "!", "\"", "#", "$", "%", "&", "'", "(", ")", "*", "+", ",", "-", ".", "/",
     "0", "1", "2", "3", "4", "5", "6", "7", "8", "9", ":", ";", "<", "=", ">", "?",
     "@", "A", "B", "C", "D", "E", "F", "G", "H", "I", "J", "K", "L", "M", "N", "O",
     "P", "Q", "R", "S", "T", "U", "V", "W", "X", "Y", "Z", "[", "\\", "]", "^", "_",
     "GRAVE", "a", "b", "c", "d", "e", "f", "g", "h", "i", "j", "k", "l", "m", "n", "o",
     "p", "q", "r", "s", "t", "u", "v", "w", "x", "y", "z", "{", "|", "}", "~" >>

\* String.charCodeAt for one character ("\n" is the line separator of join).
CharCode ==
  [c \in {Printable[i] : i \in 1..Len(Printable)} \cup {"\n"} |->
     IF c = "\n" THEN 10
     ELSE 31 + (CHOOSE i \in 1..Len(Printable) : Printable[i] = c)]

\* The digits of Number.toString(36), by value.
Base36Digits ==
  << "0", "1", "2", "3", "4", "5", "6", "7", "8", "9", "a", "b", "c", "d", "e", "f",
     "g", "h", "i", "j", "k", "l", "m", "n", "o", "p", "q", "r", "s", "t", "u", "v",
     "w", "x", "y", "z" >>

\* The multi-character atoms and their characters.
AtomChars ==
  ( "%%dex:"      :> << "%", "%", "d", "e", "x", ":" >> ) @@
  ( "%%"          :> << "%", "%" >> ) @@
  ( "contact-id=" :> << "c", "o", "n", "t", "a", "c", "t", "-", "i", "d", "=" >> ) @@
  ( ",memo-id="   :> << ",", "m", "e", "m", "o", "-", "i", "d", "=" >> ) @@
  ( ",hash="      :> << ",", "h", "a", "s", "h", "=" >> ) @@
  ( "data-hash=\"" :> << "d", "a", "t", "a", "-", "h", "a", "s", "h", "=", "\"" >> ) @@
  ( "URL/"        :> << "h", "t", "t", "p", "s", ":", "/", "/", "g", "e", "t", "d", "e", "x",
                        ".", "c", "o", "m", "/", "a", "p", "p", "v", "3", "/", "c", "o", "n",
                        "t", "a", "c", "t", "s", "/", "d", "e", "t", "a", "i", "l", "s", "/" >> ) @@
  ( "memo_"       :> << "m", "e", "m", "o", "_" >> ) @@
  ( "c1"          :> << "c", "1" >> ) @@
  ( "c2"          :> << "c", "2" >> ) @@
  ( "m1"          :> << "m", "1" >> ) @@
  ( "m2"          :> << "m", "2" >> ) @@
  ( "m3"          :> << "m", "3" >> ) @@
  ( "m4"          :> << "m", "4" >> ) @@
  ( "m5"          :> << "m", "5" >> ) @@
  ( "m6"          :> << "m", "6" >> ) @@
  ( "m7"          :> << "m", "7" >> ) @@
  ( "m8"          :> << "m", "8" >> )

\* The characters of one lexeme, atoms being the table of the atoms.
LexemeChars(atoms, l) == IF l \in DOMAIN atoms THEN atoms[l] ELSE << l >>

Chars(l) == LexemeChars(AtomChars, l)

\* The characters of a text.
RECURSIVE Expand(_)
Expand(s) == IF s = << >> THEN << >> ELSE Chars(Head(s)) \o Expand(Tail(s))

\* None of the characters cs is in the set set: the class [^set] on a lexeme.
NoneOf(cs, set) == \A k \in 1..Len(cs) : cs[k] \notin set

\* \s on a lexeme (the atoms hold no white space).
IsSpace(l) == l \in {" ", "\n"}

\* \d on a lexeme.
IsDigit(l) == l \in {"0", "1", "2", "3", "4", "5", "6", "7", "8", "9"}

\* The character classes of the program's regular expressions, by name, on a
\* lexeme l of characters cs.
ClassHolds(l, cs, cls) ==
  CASE cls = "\\s"       -> IsSpace(l)
    [] cls = "\\d"       -> IsDigit(l)
    [] cls = "[^,%)]"    -> NoneOf(cs, {",", "%", ")"})
    [] cls = "[^%]"      -> NoneOf(cs, {"%"})
    [] cls = "[^,]"      -> NoneOf(cs, {","})
    [] cls = "[^\"]"     -> NoneOf(cs, {"\""})
    [] cls = "[^]]"      -> NoneOf(cs, {"]"})
    [] cls = "[^]|]"     -> NoneOf(cs, {"]", "|"})
    [] cls = "[^)]"      -> NoneOf(cs, {")"})

InClass(l, cls) == ClassHolds(l, Chars(l), cls)

\* The literal lit stands in s at position p (1-based).
LitAt(s, p, lit) ==
  /\ p >= 1
  /\ p + Len(lit) - 1 <= Len(s)
  /\ \A k \in 1..Len(lit) : s[p + k - 1] = lit[k]

\* The position after the longest run, from p, of lexemes of the class cls.
RECURSIVE RunEnd(_, _, _)
RunEnd(s, p, cls) ==
  IF p <= Len(s) /\ InClass(s[p], cls) THEN RunEnd(s, p + 1, cls) ELSE p

\* s[a..b-1]
Slice(s, a, b) == IF b <= a THEN << >> ELSE SubSeq(s, a, b - 1)

\* String.trim
RECURSIVE TrimStart(_)
TrimStart(s) == IF s # << >> /\ IsSpace(Head(s)) THEN TrimStart(Tail(s)) ELSE s

RECURSIVE TrimEnd(_)
TrimEnd(s) ==
  IF s # << >> /\ IsSpace(s[Len(s)]) THEN TrimEnd(SubSeq(s, 1, Len(s) - 1)) ELSE s

Trim(s) == TrimEnd(TrimStart(s))

\* The 0-based index for the 1-based position p in a text of length len, or
\* -1 when p is past the end.
IndexOrNone(p, len) == IF p > len THEN -1 ELSE p - 1

\* String.search(/\S/): the 0-based index of the first non-space, or -1.
SearchNonSpace(s) == IndexOrNone(RunEnd(s, 1, "\\s"), Len(s))

\* Array.join("\n")
RECURSIVE JoinLines(_)
JoinLines(ls) ==
  IF ls = << >> THEN << >>
  ELSE IF Len(ls) = 1 THEN ls[1]
  ELSE ls[1] \o << "\n" >> \o JoinLines(Tail(ls))

\* The lines of a content, as editor.setValue shows them; acc holds the
\* lines so far, the last of them being the line in progress.
RECURSIVE SplitLines(_, _, _)
SplitLines(s, p, acc) ==
  IF p > Len(s) \/ Len(acc) < 0 THEN acc
  ELSE IF s[p] = "\n" THEN SplitLines(s, p + 1, Append(acc, << >>))
  ELSE SplitLines(s, p + 1, [acc EXCEPT ![Len(acc)] = Append(@, s[p])])

\* ------------------------------------------------------------------------
\* simpleHash: h = 31*h + charCode wrapped to 32 bits, then
\* Math.abs(h).toString(36).  The accumulator is kept as two 16-bit halves
\* <<hi, lo>> of its unsigned 32-bit form.
\* ------------------------------------------------------------------------

\* A variant of HashStep that adds the character codes up: h = h + charCode.
HashStepSum(h, code) ==
  << (h[1] + ((h[2] + code) \div 65536)) % 65536, (h[2] + code) % 65536 >>

HashStep(h, code) ==
  LET lo == h[2] * 31 + code
      hi == h[1] * 31 + (lo \div 65536)
  IN  << hi % 65536, lo % 65536 >>

\* The accumulator after the characters cs[i..] of one lexeme; h is the
\* accumulator before (h[1] < 0 never holds: the test makes h strict).
RECURSIVE HashChars(_, _, _)
HashChars(cs, i, h) ==
  IF i > Len(cs) \/ h[1] < 0 THEN h
  ELSE HashChars(cs, i + 1, HashStep(h, CharCode[cs[i]]))

\* The accumulator after the lexemes s[i..].
RECURSIVE HashFold(_, _, _)
HashFold(s, i, h) ==
  IF i > Len(s) \/ h[1] < 0 THEN h
  ELSE HashFold(s, i + 1, HashChars(Chars(s[i]), 1, h))

\* Math.abs of the signed 32-bit value, as halves (2^31 stays 2^31).
AbsHalves(h) ==
  IF h[1] < 32768 THEN h
  ELSE IF h[2] = 0 THEN << 65536 - h[1], 0 >>
  ELSE << 65535 - h[1], 65536 - h[2] >>

\* Number.toString(36) of a value given as halves.
RECURSIVE ToBase36(_)
ToBase36(h) ==
  LET t == (h[1] % 36) * 65536 + h[2]
      q == << h[1] \div 36, t \div 36 >>
      d == << Base36Digits[(t % 36) + 1] >>
  IN  IF q = << 0, 0 >> THEN d ELSE ToBase36(q) \o d

simpleHash(str) == ToBase36(AbsHalves(HashFold(str, 1, << 0, 0 >>)))

\* ------------------------------------------------------------------------
\* The annotation patterns (constants)
\* ------------------------------------------------------------------------

NoMatch == [ok |-> FALSE, start |-> 0, end |-> 0,
            g1 |-> << >>, g2 |-> << >>, g3 |-> << >>]

\* The least element of a non-empty set of positions.
MinOf(ps) == CHOOSE p \in ps : \A q \in ps : p <= q

\* The leftmost successful match among the anchored matches ms (ms[p] is the
\* match tried at position p), or none.
LeftmostOk(ms, none) ==
  IF \E p \in DOMAIN ms : ms[p].ok
  THEN ms[MinOf({p \in DOMAIN ms : ms[p].ok})]
  ELSE none

\* One optional field (?:<key>([^,%)]+))? tried at p, e being the end of the
\* run of [^,%)] after the key: <<captured text, next position>>; an absent
\* field captures nothing (undefined) and stays at p.
OptFieldTo(s, p, key, e) ==
  IF p <= Len(s) /\ s[p] = key /\ e > p + 1
  THEN << Slice(s, p + 1, e), e >>
  ELSE << << >>, p >>

OptField(s, p, key) == OptFieldTo(s, p, key, RunEnd(s, p + 1, "[^,%)]"))

\* MEMO_ID_PATTERN anchored at p:
\* %%dex:(?:contact-id=([^,%)]+))?(?:,memo-id=([^,%)]+))?(?:,hash=([^,%)]+))?%%
\* f1, f2, f3 are the three optional fields in turn.
MemoMatchClose(s, p, f1, f2, f3) ==
  IF f3[2] <= Len(s) /\ s[f3[2]] = "%%"
  THEN [ok |-> TRUE, start |-> p, end |-> f3[2] + 1,
        g1 |-> f1[1], g2 |-> f2[1], g3 |-> f3[1]]
  ELSE NoMatch

MemoMatchHash(s, p, f1, f2) ==
  MemoMatchClose(s, p, f1, f2, OptField(s, f2[2], ",hash="))

MemoMatchMemo(s, p, f1) ==
  MemoMatchHash(s, p, f1, OptField(s, f1[2], ",memo-id="))

MemoMatchAt(s, p) ==
  IF ~(p <= Len(s) /\ s[p] = "%%dex:") THEN NoMatch
  ELSE MemoMatchMemo(s, p, OptField(s, p + 1, "contact-id="))

\* String.match(MEMO_ID_PATTERN): the leftmost match.
MEMO_ID_PATTERN(s) ==
  LeftmostOk([p \in 1..Len(s) |-> MemoMatchAt(s, p)], NoMatch)

\* The closing %% at e: the position after it, or 0.
ClosedAt(s, e) == IF e >= 1 /\ e <= Len(s) /\ s[e] = "%%" THEN e + 1 ELSE 0

\* MEMO_ID_CLEANUP_PATTERN anchored at p, %%dex:[^%]*%% : the position after
\* the match, or 0.
CleanupMatchEnd(s, p) ==
  IF p <= Len(s) /\ s[p] = "%%dex:"
  THEN ClosedAt(s, RunEnd(s, p + 1, "[^%]")) ELSE 0

\* String.replace(MEMO_ID_CLEANUP_PATTERN, '') from position p on, acc being
\* the text kept so far (Len(acc) < 0 never holds: it makes acc strict).
RECURSIVE StripFrom(_, _, _)
StripFrom(s, p, acc) ==
  IF p > Len(s) \/ Len(acc) < 0 THEN acc
  ELSE IF CleanupMatchEnd(s, p) > 0 THEN StripFrom(s, CleanupMatchEnd(s, p), acc)
  ELSE StripFrom(s, p + 1, Append(acc, s[p]))

\* A variant of MEMO_ID_CLEANUP without the flag g: only the first match is
\* removed.
StripOnce(s) ==
  IF \E p \in 1..Len(s) : CleanupMatchEnd(s, p) > 0
  THEN SubSeq(s, 1, MinOf({p \in 1..Len(s) : CleanupMatchEnd(s, p) > 0}) - 1)
         \o SubSeq(s, CleanupMatchEnd(s, MinOf({p \in 1..Len(s) : CleanupMatchEnd(s, p) > 0})),
                   Len(s))
  ELSE s

MEMO_ID_CLEANUP(s) == StripFrom(s, 1, << >>)

\* ------------------------------------------------------------------------
\* detectContentBlock
\* ------------------------------------------------------------------------

\* (\d+\.|\d+\))\s at the start of t, e being the end of the run of digits.
IsNumberedItem(t, e) ==
  e > 1 /\ e + 1 <= Len(t) /\ t[e] \in {".", ")"} /\ IsSpace(t[e + 1])

\* /^(\*|-|\+|\d+\.|\d+\))\s/ on a trimmed line
IsListItemText(t) ==
  \/ Len(t) >= 2 /\ t[1] \in {"*", "-", "+"} /\ IsSpace(t[2])
  \/ IsNumberedItem(t, RunEnd(t, 1, "\\d"))

\* /^>\s/ on a trimmed line
IsBlockquoteText(t) == Len(t) >= 2 /\ t[1] = ">" /\ IsSpace(t[2])

\* /^#{1,6}\s/ on a trimmed line
IsHeaderText(t) ==
  \E n \in 1..6 :
     /\ n + 1 <= Len(t)
     /\ \A k \in 1..n : t[k] = "#"
     /\ IsSpace(t[n + 1])

\* A variant of IsIncluded without the test for a list item at the level of
\* the start.
IncludedNoSibling(isEmpty, isListItem, isBlockquote, isHeader, currentIndent, startIndent, startIsListItem) ==
  IF isEmpty THEN FALSE
  ELSE IF isHeader /\ currentIndent <= startIndent THEN FALSE
  ELSE IF currentIndent > startIndent
          \/ (isBlockquote /\ currentIndent >= startIndent) THEN TRUE
  ELSE IF currentIndent = startIndent /\ ~isHeader THEN TRUE
  ELSE FALSE

\* A variant of IsIncluded that takes a header for text.
IncludedHeaderAsText(isEmpty, isListItem, isBlockquote, isHeader, currentIndent, startIndent, startIsListItem) ==
  IF isEmpty THEN FALSE
  ELSE IF startIsListItem /\ isListItem /\ currentIndent = startIndent THEN FALSE
  ELSE IF currentIndent > startIndent
          \/ (isBlockquote /\ currentIndent >= startIndent) THEN TRUE
  ELSE IF currentIndent = startIndent /\ ~isListItem THEN TRUE
  ELSE FALSE

\* A variant of IsIncluded that takes in lines indented at least as much as
\* the start, list items included.
IncludedSameLevel(isEmpty, isListItem, isBlockquote, isHeader, currentIndent, startIndent, startIsListItem) ==
  IF isEmpty THEN FALSE
  ELSE IF startIsListItem /\ isListItem /\ currentIndent = startIndent THEN FALSE
  ELSE IF isHeader /\ currentIndent <= startIndent THEN FALSE
  ELSE currentIndent >= startIndent

\* The chain of tests of the loop body of detectContentBlock: the current
\* line belongs to the block (FALSE is a break).
IsIncluded(isEmpty, isListItem, isBlockquote, isHeader, currentIndent, startIndent, startIsListItem) ==
  IF isEmpty THEN FALSE
  ELSE IF startIsListItem /\ isListItem /\ currentIndent = startIndent THEN FALSE
  ELSE IF isHeader /\ currentIndent <= startIndent THEN FALSE
  ELSE IF currentIndent > startIndent
          \/ (isBlockquote /\ currentIndent >= startIndent) THEN TRUE
  ELSE IF currentIndent = startIndent /\ ~isListItem /\ ~isHeader THEN TRUE
  ELSE FALSE

\* The loop body of detectContentBlock for a line with the given trimmed
\* text and indentation.
TrimmedIncluded(trimmedLine, currentIndent, startIndent, startIsListItem) ==
  IsIncluded(trimmedLine = << >>, IsListItemText(trimmedLine),
             IsBlockquoteText(trimmedLine), IsHeaderText(trimmedLine),
             currentIndent, startIndent, startIsListItem)

LineIncluded(currentLine, startIndent, startIsListItem) ==
  TrimmedIncluded(Trim(currentLine), SearchNonSpace(currentLine),
                  startIndent, startIsListItem)

\* The walk of detectContentBlock over the lines after the start, from line i
\* (0-based); acc holds endLine and contentLines so far (acc.endLine < 0 never
\* holds: the test makes the evaluation of acc strict).
RECURSIVE WalkBlock(_, _, _, _, _)
WalkBlock(d, i, startIndent, startIsListItem, acc) ==
  IF i >= Len(d) \/ acc.endLine < 0 THEN acc
  ELSE IF LineIncluded(d[i + 1], startIndent, startIsListItem)
       THEN WalkBlock(d, i + 1, startIndent, startIsListItem,
                      [endLine |-> i,
                       contentLines |->
                          Append(acc.contentLines, MEMO_ID_CLEANUP(d[i + 1]))])
       ELSE acc

\* A variant of PopTrailingEmpty that removes the first content line as
\* well when it is empty.
RECURSIVE PopEveryEmpty(_)
PopEveryEmpty(ls) ==
  IF Len(ls) > 0 /\ Trim(ls[Len(ls)]) = << >>
  THEN PopEveryEmpty(SubSeq(ls, 1, Len(ls) - 1))
  ELSE ls

\* The removal of trailing empty content lines (never the first one).
RECURSIVE PopTrailingEmpty(_)
PopTrailingEmpty(ls) ==
  IF Len(ls) > 1 /\ Trim(ls[Len(ls)]) = << >>
  THEN PopTrailingEmpty(SubSeq(ls, 1, Len(ls) - 1))
  ELSE ls

\* The result of detectContentBlock from the walk and the match of
\* MEMO_ID_PATTERN on the start line; an undefined memoId or storedHash is
\* << >>.
BlockResult(walked, memoMatch) ==
  [endLine         |-> walked.endLine,
   contentLines    |-> PopTrailingEmpty(walked.contentLines),
   hasExistingMemo |-> memoMatch.ok /\ memoMatch.g2 # << >>,
   memoId          |-> IF memoMatch.ok THEN memoMatch.g2 ELSE << >>,
   storedHash      |-> IF memoMatch.ok THEN memoMatch.g3 ELSE << >>]

\* A variant of BlockFrom that takes the start line into the content as it
\* is, with its Dex comments.
BlockFromRaw(d, startLineNum, startLine) ==
  BlockResult(
    WalkBlock(d, startLineNum + 1, SearchNonSpace(startLine),
              IsListItemText(Trim(startLine)),
              [endLine |-> startLineNum, contentLines |-> << Trim(startLine) >>]),
    MEMO_ID_PATTERN(startLine))

\* detectContentBlock from the start line's text; line numbers are 0-based.
BlockFrom(d, startLineNum, startLine) ==
  BlockResult(
    WalkBlock(d, startLineNum + 1, SearchNonSpace(startLine),
              IsListItemText(Trim(startLine)),
              [endLine |-> startLineNum,
               contentLines |-> << Trim(MEMO_ID_CLEANUP(startLine)) >>]),
    MEMO_ID_PATTERN(startLine))

\* detectContentBlock(getLine, totalLines, startLineNum) on document d.
detectContentBlock(d, startLineNum) == BlockFrom(d, startLineNum, d[startLineNum + 1])

\* ------------------------------------------------------------------------
\* Link patterns and the annotation rewrite of syncContactMemo
\* ------------------------------------------------------------------------

\* A variant of DexLinkClose that takes the Dex URL link of any contact.
AnyDexLinkClose(s, e, id) ==
  IF LitAt(s, e, << "]", "(", "URL/" >>) /\ LitAt(s, e + 4, << ")" >>)
  THEN e + 5 ELSE 0

\* \[[^\]]*\]\(https:\/\/getdex\.com\/appv3\/contacts\/details\/<id>\)
\* anchored at p: the position after the link, or 0.
DexLinkClose(s, e, id) ==
  IF LitAt(s, e, << "]", "(", "URL/" >> \o id \o << ")" >>)
  THEN e + Len(id) + 4 ELSE 0

DexLinkEnd(s, p, id) ==
  IF ~(p <= Len(s) /\ s[p] = "[") THEN 0
  ELSE DexLinkClose(s, RunEnd(s, p + 1, "[^]]"), id)

\* \[\[[^\]]+\]\] anchored at p: the position after the link, or 0.
VaultLinkClose(s, p, e) ==
  IF e > p + 2 /\ LitAt(s, e, << "]", "]" >>) THEN e + 2 ELSE 0

VaultLinkEnd(s, p) ==
  IF ~LitAt(s, p, << "[", "[" >>) THEN 0
  ELSE VaultLinkClose(s, p, RunEnd(s, p + 2, "[^]]"))

NoLink == [ok |-> FALSE, start |-> 0, linkEnd |-> 0, annEnd |-> 0, end |-> 0]

\* A link from p to l followed by a comment that ends at c (0: no comment) and
\* by the white space (\s*) of group 2.
CommentedLink(s, p, l, c) ==
  IF c = 0 THEN NoLink
  ELSE [ok |-> TRUE, start |-> p, linkEnd |-> l, annEnd |-> c,
        end |-> RunEnd(s, c, "\\s")]

\* dexUrlWithComment anchored at p, l being the end of the link:
\* (<dex link to id>)\s*%%dex:[^%]*%%(\s*)
DexCommentAfter(s, p, l) ==
  IF l = 0 THEN NoLink
  ELSE CommentedLink(s, p, l, CleanupMatchEnd(s, RunEnd(s, l, "\\s")))

DexUrlWithCommentAt(s, p, id) == DexCommentAfter(s, p, DexLinkEnd(s, p, id))

\* A lexeme of characters cs that starts with "," and holds no "%".
StartsComma(cs) == cs[1] = "," /\ NoneOf(cs, {"%"})

\* The optional group (?:,[^%]*)? tried at q: the position after it.
CommaRestEnd(s, q) ==
  IF q <= Len(s) /\ StartsComma(Chars(s[q]))
  THEN RunEnd(s, q + 1, "[^%]") ELSE q

\* vaultLinkWithComment anchored at p, l being the end of the link and w the
\* position after the white space that follows it:
\* (\[\[[^\]]+\]\])\s*%%dex:contact-id=<id>(?:,[^%]*)?%%(\s*)
VaultCommentAt(s, p, id, l, w) ==
  IF LitAt(s, w, << "%%dex:", "contact-id=" >> \o id)
  THEN CommentedLink(s, p, l, ClosedAt(s, CommaRestEnd(s, w + 2 + Len(id))))
  ELSE NoLink

VaultCommentAfter(s, p, id, l) ==
  IF l = 0 THEN NoLink ELSE VaultCommentAt(s, p, id, l, RunEnd(s, l, "\\s"))

VaultLinkWithCommentAt(s, p, id) == VaultCommentAfter(s, p, id, VaultLinkEnd(s, p))

\* A link from p to l (0: no link) matched by a pattern without comment.
PlainLink(p, l) ==
  IF l = 0 THEN NoLink
  ELSE [ok |-> TRUE, start |-> p, linkEnd |-> l, annEnd |-> l, end |-> l]

\* dexUrlPattern anchored at p: (<dex link to id>)
DexUrlPatternAt(s, p, id) == PlainLink(p, DexLinkEnd(s, p, id))

\* vaultLinkPattern anchored at p: (\[\[[^\]]+\]\])
VaultLinkPatternAt(s, p) == PlainLink(p, VaultLinkEnd(s, p))

\* One of the four patterns anchored at p.
LinkMatchAt(s, p, id, pattern) ==
  CASE pattern = "dexUrlWithComment"    -> DexUrlWithCommentAt(s, p, id)
    [] pattern = "vaultLinkWithComment" -> VaultLinkWithCommentAt(s, p, id)
    [] pattern = "dexUrlPattern"        -> DexUrlPatternAt(s, p, id)
    [] pattern = "vaultLinkPattern"     -> VaultLinkPatternAt(s, p)

\* The leftmost match of one of the four patterns on s.
FirstLinkMatch(s, id, pattern) ==
  LeftmostOk([p \in 1..Len(s) |-> LinkMatchAt(s, p, id, pattern)], NoLink)

\* The comment written by a sync: %%dex:contact-id=X,memo-id=Y,hash=Z%%
DexComment(contactId, memoId, hash) ==
  << "%%dex:", "contact-id=" >> \o contactId \o << ",memo-id=" >> \o memoId
     \o << ",hash=" >> \o hash \o << "%%" >>

\* String.replace(pattern, "$1<comment>$2") for a match m of a ...WithComment
\* pattern: $1 is the link, $2 the white space after the old comment.
ReplaceComment(s, m, comment) ==
  Slice(s, 1, m.start) \o Slice(s, m.start, m.linkEnd) \o comment
     \o Slice(s, m.annEnd, m.end) \o Slice(s, m.end, Len(s) + 1)

\* A variant of InsertComment that appends the comment to the line instead
\* of placing it after the link.
AppendComment(s, m, comment) == s \o comment \o << " " >>

\* String.replace(pattern, "$1<comment> ") for a match m of a link pattern.
InsertComment(s, m, comment) ==
  Slice(s, 1, m.start) \o Slice(s, m.start, m.linkEnd) \o comment \o << " " >>
     \o Slice(s, m.end, Len(s) + 1)

\* A variant of RewriteLine that keeps a comment the line already has.
KeepComment(startLine, comment, m1, m2, m3, m4) ==
  IF m1.ok \/ m2.ok THEN startLine
  ELSE IF m3.ok THEN InsertComment(startLine, m3, comment)
  ELSE IF m4.ok THEN InsertComment(startLine, m4, comment)
  ELSE startLine

\* The chain of tests that rewrites the start line: m1..m4 are the matches of
\* dexUrlWithComment, vaultLinkWithComment, dexUrlPattern, vaultLinkPattern.
RewriteLine(startLine, comment, m1, m2, m3, m4) ==
  IF m1.ok THEN ReplaceComment(startLine, m1, comment)
  ELSE IF m2.ok THEN ReplaceComment(startLine, m2, comment)
  ELSE IF m3.ok THEN InsertComment(startLine, m3, comment)
  ELSE IF m4.ok THEN InsertComment(startLine, m4, comment)
  ELSE startLine

\* updatedLine of syncContactMemo for the start line's text at rewrite time.
UpdatedLine(startLine, contactId, resultId, contentHash) ==
  RewriteLine(startLine, DexComment(contactId, resultId, contentHash),
              FirstLinkMatch(startLine, contactId, "dexUrlWithComment"),
              FirstLinkMatch(startLine, contactId, "vaultLinkWithComment"),
              FirstLinkMatch(startLine, contactId, "dexUrlPattern"),
              FirstLinkMatch(startLine, contactId, "vaultLinkPattern"))

\* ------------------------------------------------------------------------
\* The sync decisions of syncContactMemo and the other sync-status tests
\* ------------------------------------------------------------------------

\* The result of ContentProcessor.getContentBlock from that of
\* detectContentBlock.
ContentBlockOf(result) ==
  [content         |-> JoinLines(result.contentLines),
   endLine         |-> result.endLine,
   hasExistingMemo |-> result.hasExistingMemo,
   memoId          |-> result.memoId]

\* ContentProcessor.getContentBlock
getContentBlock(d, startLineNumber) ==
  ContentBlockOf(detectContentBlock(d, startLineNumber))

NoDataHash == [ok |-> FALSE, text |-> << >>]

\* /data-hash="([^"]*)"/ anchored at p, e being the end of the run of [^"].
DataHashClose(s, p, e) ==
  IF e <= Len(s) /\ s[e] = "\"" THEN [ok |-> TRUE, text |-> Slice(s, p + 1, e)]
  ELSE NoDataHash

DataHashAt(s, p) ==
  IF s[p] = "data-hash=\"" THEN DataHashClose(s, p, RunEnd(s, p + 1, "[^\"]"))
  ELSE NoDataHash

\* lastLine.match(/data-hash="([^"]*)"/): [ok, captured text].
DataHashMatch(s) == LeftmostOk([p \in 1..Len(s) |-> DataHashAt(s, p)], NoDataHash)

\* contentForHash and its hash, as syncContactMemo computes them.
ContentHash(fullContent) == simpleHash(Trim(MEMO_ID_CLEANUP(fullContent)))

\* storedHash && storedHash === currentHash
HashUnchanged(storedHash, currentHash) ==
  storedHash # << >> /\ storedHash = currentHash

\* The test of syncContactMemo that skips the sync of unchanged content, for
\* the content block of the start line.
SkipBlock(d, contentBlock) ==
  /\ contentBlock.hasExistingMemo
  /\ contentBlock.memoId # << >>
  /\ HashUnchanged(DataHashMatch(d[contentBlock.endLine + 1]).text,
                   ContentHash(contentBlock.content))

SkipSync(d, lineNumber) == SkipBlock(d, getContentBlock(d, lineNumber))

\* cs starts with ps.
HasPrefix(cs, ps) == Len(ps) <= Len(cs) /\ SubSeq(cs, 1, Len(ps)) = ps

\* String.startsWith on the characters of a text.
StartsWith(s, prefix) == HasPrefix(Expand(s), Expand(prefix))

\* A variant of isFakeMemoId that takes every id for a remote id.
NeverFake(existingMemoId) == FALSE

\* isFakeMemoId: the existing id is a fallback id.
isFakeMemoId(existingMemoId) ==
  existingMemoId # << >> /\ StartsWith(existingMemoId, << "memo_" >>)

\* The remote operation a sync that does not skip starts with.
RemoteOp(existingMemoId) ==
  IF existingMemoId # << >> /\ ~isFakeMemoId(existingMemoId)
  THEN "updateNote" ELSE "createNote"

\* A variant of SyncStatus that takes a memo id without stored hash for synced.
LegacySyncStatus(hasExistingMemo, storedHash, contentHash) ==
  IF ~hasExistingMemo THEN "not-synced"
  ELSE IF storedHash = << >> \/ storedHash = contentHash THEN "synced"
  ELSE "needs-resync"

\* The sync status of findContentBlockEnd.
SyncStatus(hasExistingMemo, storedHash, contentHash) ==
  IF ~hasExistingMemo THEN "not-synced"
  ELSE IF storedHash = << >> THEN "needs-resync"
  ELSE IF storedHash = contentHash THEN "synced"
  ELSE "needs-resync"

\* The result of findContentBlockEnd from that of detectContentBlock and the
\* hash of the block's content.
ButtonBlock(result, contentHash) ==
  [endLine         |-> result.endLine,
   hasExistingMemo |-> result.hasExistingMemo,
   syncStatus      |-> SyncStatus(result.hasExistingMemo, result.storedHash, contentHash),
   contentHash     |-> contentHash]

HashedBlock(result) ==
  ButtonBlock(result, simpleHash(Trim(JoinLines(result.contentLines))))

\* findContentBlockEnd: the sync status shown by the inline button.  Line
\* numbers are 0-based here as in detectContentBlock: the conversions from
\* and to the editor's 1-based numbers cancel.
findContentBlockEnd(d, startLineNum) == HashedBlock(detectContentBlock(d, startLineNum))

\* ------------------------------------------------------------------------
\* The callers of syncContactMemo: which (line, contact) they pass
\* ------------------------------------------------------------------------

\* \w on a character code.
IsWordCode(c) ==
  (c >= 48 /\ c <= 57) \/ (c >= 65 /\ c <= 90) \/ (c >= 97 /\ c <= 122) \/ c = 95

\* \w somewhere in the characters cs.
HasWordCode(cs) == \E k \in 1..Len(cs) : IsWordCode(CharCode[cs[k]])

\* \w on a lexeme: some character is a letter, a digit or "_".
HasWordChar(l) == HasWordCode(Chars(l))

\* /\w/.test(fullName)
TestWord(fullName) == \E k \in 1..Len(fullName) : HasWordChar(fullName[k])

\* linkText.replace(/^@/, '') passes /\w/
NameHasWord(linkText) ==
  TestWord(IF linkText # << >> /\ Head(linkText) = "@" THEN Tail(linkText)
           ELSE linkText)

NoUrl == [ok |-> FALSE, linkText |-> << >>, id |-> << >>]

\* DEX_URL_PATTERN anchored at p, \[([^\]]*)\]\((https://getdex.com/.../[^)]+)\):
\* [ok, linkText, id]; e is the end of the link text, f that of the id.
DexUrlClose(s, p, e, f) ==
  IF LitAt(s, e, << "]", "(", "URL/" >>) /\ f > e + 3 /\ f <= Len(s) /\ s[f] = ")"
  THEN [ok |-> TRUE, linkText |-> Slice(s, p + 1, e), id |-> Slice(s, e + 3, f)]
  ELSE NoUrl

DexUrlId(s, p, e) == DexUrlClose(s, p, e, RunEnd(s, e + 3, "[^)]"))

DexUrlAt(s, p) ==
  IF ~(p <= Len(s) /\ s[p] = "[") THEN NoUrl
  ELSE DexUrlId(s, p, RunEnd(s, p + 1, "[^]]"))

\* String.match / exec of DEX_URL_PATTERN from the start: the leftmost match.
DEX_URL_PATTERN(s) == LeftmostOk([p \in 1..Len(s) |-> DexUrlAt(s, p)], NoUrl)

NoVault == [ok |-> FALSE, linkText |-> << >>]

\* VAULT_LINK_PATTERN anchored at p, \[\[([^\]|]+)(?:\|([^\]]+))?\]\] :
\* [ok, linkText], linkText being match[2] || match[1]; e is the end of group
\* 1 and f the end of the run of [^\]] after e.
VaultLinkClose2(s, p, e, f) ==
  IF e > p + 2 /\ LitAt(s, e, << "]", "]" >>)
  THEN [ok |-> TRUE, linkText |-> Slice(s, p + 2, e)]
  ELSE IF e > p + 2 /\ LitAt(s, e, << "|" >>) /\ f > e + 1
          /\ LitAt(s, f, << "]", "]" >>)
  THEN [ok |-> TRUE, linkText |-> Slice(s, e + 1, f)]
  ELSE NoVault

VaultLinkAlias(s, p, e) == VaultLinkClose2(s, p, e, RunEnd(s, e + 1, "[^]]"))

VaultLinkAt(s, p) ==
  IF ~LitAt(s, p, << "[", "[" >>) THEN NoVault
  ELSE VaultLinkAlias(s, p, RunEnd(s, p + 2, "[^]|]"))

\* exec of VAULT_LINK_PATTERN from the start: the leftmost match.
VAULT_LINK_PATTERN(s) == LeftmostOk([p \in 1..Len(s) |-> VaultLinkAt(s, p)], NoVault)

\* The contact of the button of a line from the contact-id of its first Dex
\* comment and the first matches of the two link patterns: the vault link
\* counts only if the Dex URL link gave no contact.
LinkedContact(contactIdFromComment, dexMatch, vaultMatch) ==
  IF /\ contactIdFromComment # << >>
     /\ \/ dexMatch.ok /\ NameHasWord(dexMatch.linkText)
        \/ vaultMatch.ok /\ NameHasWord(vaultMatch.linkText)
  THEN contactIdFromComment ELSE << >>

\* The contact the inline sync button of a line syncs (createSyncButtonDecorations
\* and handleSyncClick): the contact-id of the first Dex comment, if the line
\* holds a named Dex URL link or, failing that, a named vault link; else << >>.
ButtonContact(lineText) ==
  LinkedContact(Trim(MEMO_ID_PATTERN(lineText).g1), DEX_URL_PATTERN(lineText),
                VAULT_LINK_PATTERN(lineText))

\* The mentionInfo of the button of the block that starts at line lineNum.
MentionInfo(lineNum, contact, contentBlock) ==
  [line            |-> lineNum,
   contact         |-> contact,
   endLine         |-> contentBlock.endLine,
   hasExistingMemo |-> contentBlock.hasExistingMemo,
   syncStatus      |-> contentBlock.syncStatus,
   contentHash     |-> contentBlock.contentHash]

\* The loop of createSyncButtonDecorations from line lineNum (0-based) on: a
\* line inside the block of an earlier button is skipped (processedLines); acc
\* holds the buttons so far (Cardinality(acc) < 0 never holds: it makes acc
\* strict).  The cursor is taken to be outside every block.
RECURSIVE DecorateFrom(_, _, _)
DecorateFrom(d, lineNum, acc) ==
  IF lineNum >= Len(d) \/ Cardinality(acc) < 0 THEN acc
  ELSE IF ButtonContact(d[lineNum + 1]) = << >> THEN DecorateFrom(d, lineNum + 1, acc)
  ELSE DecorateFrom(d, findContentBlockEnd(d, lineNum).endLine + 1,
                    acc \cup {MentionInfo(lineNum, ButtonContact(d[lineNum + 1]),
                                          findContentBlockEnd(d, lineNum))})

\* createSyncButtonDecorations: the inline sync buttons of document d.
createSyncButtonDecorations(d) == DecorateFrom(d, 0, {})

\* A match of DEX_URL_PATTERN that findContactsInLine takes for contact c:
\* the link text holds "@" and the URL ends in the contact's id.
IsMention(m, c) ==
  m.ok /\ m.id = c /\ "@" \in {m.linkText[k] : k \in 1..Len(m.linkText)}

\* The contacts of ContentProcessor.findContactsInLine found by their Dex URL
\* links, [..@..](https://getdex.com/appv3/contacts/details/<id>), among the
\* loaded contacts.
FindContactsInLine(lineContent, contacts) ==
  {c \in contacts :
     \E p \in 1..Len(lineContent) : IsMention(DexUrlAt(lineContent, p), c)}

\* ------------------------------------------------------------------------
\* The status bar count and the auto-sync test
\* ------------------------------------------------------------------------

\* hasDexComment && (hasDexUrlLink || hasVaultLink) of countMemos and
\* performAutoSync, from the first matches of the three patterns.
HasCommentAndLink(memoMatch, dexMatch, vaultMatch) ==
  memoMatch.ok /\ (dexMatch.ok \/ vaultMatch.ok)

\* The line is counted as a tracked contact.
IsTracked(line) ==
  HasCommentAndLink(MEMO_ID_PATTERN(line), DEX_URL_PATTERN(line), VAULT_LINK_PATTERN(line))

\* !storedHash || storedHash === currentHash
HashMatchesOrNone(storedHash, currentHash) ==
  storedHash = << >> \/ storedHash = currentHash

\* countMemos: the block is counted as synced; memoMatch is the match of
\* MEMO_ID_PATTERN on the start line.
CountedSynced(contentBlock, memoMatch) ==
  /\ contentBlock.hasExistingMemo
  /\ memoMatch.ok
  /\ HashMatchesOrNone(memoMatch.g3, ContentHash(contentBlock.content))

CountsAsSynced(d, i) == CountedSynced(getContentBlock(d, i), MEMO_ID_PATTERN(d[i + 1]))

NoAutoHash == [ok |-> FALSE, text |-> << >>]

\* /%%dex:[^,]*,[^,]*,hash=([^%]+)%%/ anchored at p, in steps: e1 is the end
\* of the first run of [^,], e2 that of the second, e3 that of the hash.
AutoHashClose(s, e2, e3) ==
  IF e3 > e2 + 1 /\ ClosedAt(s, e3) > 0
  THEN [ok |-> TRUE, text |-> Slice(s, e2 + 1, e3)] ELSE NoAutoHash

AutoHashField(s, e2) ==
  IF e2 <= Len(s) /\ s[e2] = ",hash=" THEN AutoHashClose(s, e2, RunEnd(s, e2 + 1, "[^%]"))
  ELSE NoAutoHash

\* A lexeme of characters cs that is a "," followed by characters of [^,].
CommaThenNoComma(cs) == cs[1] = "," /\ NoneOf(Tail(cs), {","})

AutoHashComma(s, e1) ==
  IF e1 <= Len(s) /\ CommaThenNoComma(Chars(s[e1]))
  THEN AutoHashField(s, RunEnd(s, e1 + 1, "[^,]")) ELSE NoAutoHash

AutoHashAt(s, p) ==
  IF s[p] = "%%dex:" THEN AutoHashComma(s, RunEnd(s, p + 1, "[^,]")) ELSE NoAutoHash

\* line.match(/%%dex:[^,]*,[^,]*,hash=([^%]+)%%/): [ok, captured hash].
AutoHashMatch(s) == LeftmostOk([p \in 1..Len(s) |-> AutoHashAt(s, p)], NoAutoHash)

\* shouldSync of performAutoSync; hashMatch is the match of the hash pattern
\* on the start line (storedHash is null without a match).
ShouldSyncBlock(contentBlock, hashMatch) ==
  \/ ~contentBlock.hasExistingMemo
  \/ ~hashMatch.ok
  \/ ContentHash(contentBlock.content) # hashMatch.text

ShouldSync(d, i) == ShouldSyncBlock(getContentBlock(d, i), AutoHashMatch(d[i + 1]))

\* ------------------------------------------------------------------------
\* The state machine: one document, the remote memo store, and the calls of
\* MemoManager.syncContactMemo in progress
\* ------------------------------------------------------------------------

\* Bounds of the model.
MaxSyncs  == 2   \* calls of syncContactMemo that may be in progress at once
MaxStarts == 2   \* calls of syncContactMemo started in one behaviour
MaxEdits  == 1   \* edits the user makes in one behaviour
MaxAutoStarts == 3   \* calls started in one behaviour with auto-sync enabled

Syncs == 1..MaxSyncs

\* The ids of the loaded contacts.
Contacts == { << "c1" >>, << "c2" >> }

\* The ids the remote service gives to new memos, in order of creation.
MemoIds == << "m1", "m2", "m3", "m4", "m5", "m6", "m7", "m8" >>

\* Pieces of text of the initial documents.
DexLink(id)  == << "[", "@", "J", "]", "(", "URL/" >> \o id \o << ")" >>
VaultLink    == << "[", "[", "a", "|", "@", "J", "]", "]" >>
ContactOnly(id) == << "%%dex:", "contact-id=" >> \o id \o << "%%" >>
Note         == << " ", " ", "a" >>
LegacyHash(h) == << "%%dex:", "data-hash=\"" >> \o h \o << "\"", "%%" >>

\* A block synced before, whose last line carries the hash in the data-hash
\* form that syncContactMemo reads.
LegacyLines(h) ==
  << DexLink(<< "c1" >>) \o DexComment(<< "c1" >>, << "m1" >>, h),
     Note \o LegacyHash(h) >>

LegacyBlock == LegacyLines(ContentHash(DexLink(<< "c1" >>) \o << "\n" >> \o Note))

\* The initial documents with the memos that exist remotely for them.
InitDocs ==
  { \* a mention as the plugin inserts it, text after it, an indented note
    [doc |-> << DexLink(<< "c1" >>) \o ContactOnly(<< "c1" >>) \o << " ", "a" >>, Note >>,
     remote |-> {}],
    \* white space between the link and its comment
    [doc |-> << DexLink(<< "c1" >>) \o << " " >> \o ContactOnly(<< "c1" >>) \o << " ", "a" >> >>,
     remote |-> {}],
    \* a vault link
    [doc |-> << << "-", " " >> \o VaultLink \o ContactOnly(<< "c1" >>), Note >>,
     remote |-> {}],
    \* a link whose comments were removed (cleanupDexTags)
    [doc |-> << DexLink(<< "c1" >>) \o << " ", "a" >> >>,
     remote |-> {}],
    \* a fallback memo id
    [doc |-> << DexLink(<< "c1" >>)
                  \o << "%%dex:", "contact-id=", "c1", ",memo-id=", "memo_", "1", "%%" >> >>,
     remote |-> {}],
    \* a memo id without hash
    [doc |-> << DexLink(<< "c1" >>)
                  \o << "%%dex:", "contact-id=", "c1", ",memo-id=", "m1", "%%" >> >>,
     remote |-> {"m1"}],
    \* a comment for c1 after a link to c2
    [doc |-> << DexLink(<< "c2" >>) \o ContactOnly(<< "c1" >>) >>,
     remote |-> {}],
    [doc |-> LegacyBlock, remote |-> {"m1"}] }

VARIABLES
  doc,      \* the lines of the active document
  buttons,  \* the inline sync buttons shown for the document
  remote,   \* the ids of the memos that exist in the remote service
  created,  \* the number of memos the remote service has created
  sync,     \* per call slot: the state of a call of syncContactMemo
  starts,   \* the number of calls started
  edits,    \* the number of user edits
  syncStates, \* the transient state of the sync button of a line, by line
  profiles, \* the contacts whose profile a click on a button has opened
  auto,     \* the auto-sync: its setting, its timer and its run
  manager,  \* the contact manager: its contact lists and its load
  fetch     \* a call of fetchAllContacts

vars == << doc, buttons, remote, created, sync, starts, edits, syncStates, profiles, auto,
          manager, fetch >>

\* A call slot before its first call.  Of a call: pc is the await it stands
\* at or how it ended, calls the remote requests it made, result the id it
\* returned.  History of a call, used to state properties only: seq is its
\* number in start order; statusAtStart the status of its block when it
\* started; wrote tells that it changed the start line; during holds the
\* numbers of the calls that were in flight while it was; clean tells that
\* nothing else changed the document since it started, fresh that nothing
\* changed the document since it returned; clicked that a click on a button
\* started it; at is the number the start line has now (-1 when the user
\* deleted the line).
Idle ==
  [pc |-> "idle", contact |-> << >>, lineNumber |-> 0, fullContent |-> << >>,
   existingMemoId |-> << >>, calls |-> << >>, result |-> << >>,
   seq |-> 0, statusAtStart |-> "none", wrote |-> FALSE, during |-> {},
   clean |-> FALSE, fresh |-> FALSE, clicked |-> FALSE, at |-> -1]

\* The field syncButtonStates: the states by line, an object without keys at
\* first.  The lines are numbered from 0 here, as in the buttons.
NoStates == [l \in {} |-> "idle"]

\* syncStates[lineNum] || 'idle'
StateOf(states, line) == IF line \in DOMAIN states THEN states[line] ELSE "idle"

\* A variant of ResetStates that takes syncing back to idle as well.
ResetAllStates(states) == [l \in DOMAIN states |-> "idle"]

\* The update of syncButtonStates by a transaction that changes the
\* document: synced and error go back to idle, syncing stays.
ResetStates(states) ==
  [l \in DOMAIN states |->
     IF states[l] \in {"synced", "error"} THEN "idle" ELSE states[l]]

\* The states after a change of the document from d to d2, if any.
StatesAfter(states, d, d2) == IF d2 # d THEN ResetStates(states) ELSE states

\* The update of syncButtonStates by the effect updateSyncButtonState.of({line, state}).
WithState(states, line, state) ==
  [l \in DOMAIN states \cup {line} |-> IF l = line THEN state ELSE states[l]]

\* A variant of SettledStates that leaves the states as they are.
SettledUnseen(states, c, state) == states

\* The states after a call c settles in the given state: the button that
\* started it, if one did, shows that state.
SettledStates(states, c, state) ==
  IF c.clicked THEN WithState(states, c.lineNumber, state) ELSE states

\* The auto-sync of the plugin: settings.autoSyncOnSave, a pending
\* autoSyncDebounceTimer, skipNextAutoSync, and of the run of performAutoSync
\* in progress the line of the block whose sync it awaits (-1 without a run),
\* the call slot of that sync and the end of that block.  History, used to
\* state properties only: passed holds the lines an auto-sync run has passed
\* to syncContactMemo since the user's last modification; seen holds the
\* documents, their memo ids aside, from which a run has started to sync since
\* then, and again tells that a run started to sync from one of them once
\* more.
NoAuto ==
  [enabled |-> FALSE, timer |-> FALSE, skipNext |-> FALSE,
   line |-> -1, slot |-> 0, endLine |-> -1, passed |-> {},
   seen |-> {}, again |-> FALSE]

\* scheduleAutoSync: the pending timer, if there is one, is cleared and a new
\* timer is set.
scheduleAutoSync(a) ==
  [a EXCEPT !.timer = TRUE]

\* The handler of the vault's modify event after a change of the active
\* document from d to d2: with auto-sync enabled, an auto-sync is scheduled,
\* unless the change was announced as programmatic.
Modified(a, d, d2) ==
  IF d2 = d \/ ~a.enabled THEN a
  ELSE IF a.skipNext THEN [a EXCEPT !.skipNext = FALSE]
  ELSE scheduleAutoSync(a)

\* The same after a change made by the user.
UserModified(a, d, d2) ==
  IF d2 = d THEN a
  ELSE [Modified(a, d, d2) EXCEPT !.passed = {}, !.seen = {}, !.again = FALSE]

\* The contact manager after construction.  contacts and contactCache are
\* the arrays behind the fields of these names, and shared tells that the two
\* fields hold one and the same array; contactCacheTimestamp is kept as
\* fresh (the cache is younger than CONTACT_CACHE_MAX_AGE) and
\* lastBackgroundRefresh as recent (the last background refresh is younger
\* than BACKGROUND_REFRESH_INTERVAL); loadContactsPromise tells that the
\* field holds a promise; load and background are the requests of
\* doLoadContacts and of refreshContactsInBackground: none, requested, or
\* answered with the list that is in answer and loadAnswer; service is the
\* contact list of the remote service.  History, used to state properties
\* only: waiting holds the loadContacts calls that have not completed, added
\* the contacts passed to addContactToCache, ended the way the last load
\* ended.
NoManager ==
  [contacts |-> << >>, contactCache |-> << >>, shared |-> FALSE,
   fresh |-> FALSE, recent |-> FALSE, loadContactsPromise |-> FALSE,
   load |-> "none", loadAnswer |-> << >>,
   background |-> "none", answer |-> << >>,
   service |-> << >>, waiting |-> 0, added |-> {}, ended |-> "no"]

\* A call of fetchAllContacts before it starts: the contact list of the
\* remote service, the page size, the offset of the next request, the
\* contacts collected, the position of the call, and the offsets requested.
NoFetch ==
  [service |-> << >>, limit |-> 1, offset |-> 0, allContacts |-> << >>,
   pc |-> "idle", requests |-> << >>]

Init ==
  /\ \E d \in InitDocs :
        /\ doc = d.doc
        /\ buttons = createSyncButtonDecorations(d.doc)
        /\ remote = d.remote
        /\ created = Cardinality(d.remote)
  /\ sync = [i \in Syncs |-> Idle]
  /\ starts = 0
  /\ edits = 0
  /\ syncStates = NoStates
  /\ profiles = {}
  /\ manager = NoManager
  /\ fetch = NoFetch
  /\ auto = NoAuto

InFlight(i) == sync[i].pc \in {"updateNote", "createNote", "fallbackCreate"}

\* The state of a call of syncContactMemo at its first await, or at its
\* return when the sync is skipped: lines 297-383.
StartedCall(contact, lineNumber, contentBlock, skip, op, status) ==
  [Idle EXCEPT
     !.pc = IF skip THEN "returned" ELSE op,
     !.contact = contact,
     !.lineNumber = lineNumber,
     !.fullContent = contentBlock.content,
     !.existingMemoId = contentBlock.memoId,
     !.calls = IF skip THEN << >>
               ELSE IF op = "updateNote" THEN << "PUT" >> ELSE << "POST" >>,
     !.result = IF skip THEN contentBlock.memoId ELSE << >>,
     !.seq = starts + 1,
     !.statusAtStart = status,
     !.during = {sync[k].seq : k \in {j \in Syncs : InFlight(j)}},
     !.clean = TRUE,
     !.fresh = skip,
     !.at = lineNumber]

StartBlock(d, contact, lineNumber, contentBlock) ==
  StartedCall(contact, lineNumber, contentBlock, SkipBlock(d, contentBlock),
              RemoteOp(contentBlock.memoId),
              findContentBlockEnd(d, lineNumber).syncStatus)

\* syncContactMemo(contact, editor, lineNumber) up to its remote call, in
\* call slot i.
StartCall(i, lineNumber, contact, clicked) ==
  /\ ~InFlight(i)
  /\ starts < (IF auto.enabled THEN MaxAutoStarts ELSE MaxStarts)
  /\ sync' = [j \in Syncs |->
                IF j = i
                THEN [StartBlock(doc, contact, lineNumber, getContentBlock(doc, lineNumber))
                        EXCEPT !.clicked = clicked]
                ELSE IF InFlight(j)
                THEN [sync[j] EXCEPT !.during = @ \cup {starts + 1}]
                ELSE sync[j]]
  /\ starts' = starts + 1
  /\ UNCHANGED << doc, buttons, remote, created, edits, profiles, manager, fetch >>

\* syncContactMemo called by a command: the buttons' states and the
\* auto-sync are not touched.
SyncStart(i, lineNumber, contact) ==
  /\ StartCall(i, lineNumber, contact, FALSE)
  /\ UNCHANGED << syncStates, auto >>

\* A variant of ClickOpensProfile: a click always syncs.
ClickNeverOpensProfile(syncStatus, syncState) == FALSE

\* The test of the click listener of the button: a click on a button that
\* shows synced, and neither syncing nor error, opens the profile.
ClickOpensProfile(syncStatus, syncState) ==
  syncStatus = "synced" /\ syncState # "syncing" /\ syncState # "error"

\* The click listener on the inline button b, then handleProfileClick: the
\* profile of the button's contact is opened.  A button that shows syncing
\* is disabled and takes no click.
handleProfileClick(b) ==
  /\ b \in buttons
  /\ StateOf(syncStates, b.line) # "syncing"
  /\ ClickOpensProfile(b.syncStatus, StateOf(syncStates, b.line))
  /\ profiles' = profiles \cup {b.contact}
  /\ UNCHANGED << doc, buttons, remote, created, sync, starts, edits, syncStates, auto,
                  manager, fetch >>

\* The click listener on the inline button b, then handleSyncClick: the
\* button shows syncing and syncContactMemo runs for the button's contact at
\* the button's line, up to its remote call; a sync that is skipped returns
\* at once and the button shows synced.
handleSyncClick(i, b) ==
  /\ b \in buttons
  /\ StateOf(syncStates, b.line) # "syncing"
  /\ ~ClickOpensProfile(b.syncStatus, StateOf(syncStates, b.line))
  /\ StartCall(i, b.line, b.contact, TRUE)
  /\ syncStates' = WithState(syncStates, b.line,
                             IF SkipSync(doc, b.line) THEN "synced" ELSE "syncing")
  /\ UNCHANGED auto

\* syncCurrentLine and syncAllMemos: the sync commands sync a contact that
\* findContactsInLine finds in line lineNumber.
CommandSync(i, lineNumber, contact) ==
  /\ contact \in FindContactsInLine(doc[lineNumber + 1], Contacts)
  /\ SyncStart(i, lineNumber, contact)

\* The state of call c when it returns id after its remote call.
ReturnedCall(c, id, wrote) ==
  [c EXCEPT !.pc = "returned", !.result = id, !.wrote = wrote, !.fresh = TRUE]

\* A variant of SetLine that takes lineNumber as the number of the line
\* above (1-based line numbers).
SetLineOneBased(d, lineNumber, updatedLine) ==
  IF lineNumber + 2 <= Len(d) THEN [d EXCEPT ![lineNumber + 2] = updatedLine] ELSE d

\* The document after the rewrite of line lineNumber (0-based) to updatedLine:
\* setLine is called only if the text changed.
SetLine(d, lineNumber, updatedLine) ==
  IF updatedLine # d[lineNumber + 1]
  THEN [d EXCEPT ![lineNumber + 1] = updatedLine] ELSE d

\* A variant of Rewritten that rewrites the start line as it was read before
\* the remote call (the first line of fullContent).
RewrittenStale(d, c, id) ==
  SetLine(d, c.lineNumber,
          UpdatedLine(SplitLines(c.fullContent, 1, << << >> >>)[1], c.contact, id,
                      ContentHash(c.fullContent)))

\* syncContactMemo after its remote call returned id to call c: lines
\* 385-456, the document after the rewrite of the start line.
Rewritten(d, c, id) ==
  SetLine(d, c.lineNumber,
          UpdatedLine(d[c.lineNumber + 1], c.contact, id, ContentHash(c.fullContent)))

\* The calls after call i returned id and left the document d2.
AfterWrite(i, id, d2) ==
  [j \in Syncs |->
     IF j = i THEN ReturnedCall(sync[i], id, d2 # doc)
     ELSE IF d2 # doc THEN [sync[j] EXCEPT !.clean = FALSE, !.fresh = FALSE]
     ELSE sync[j]]

\* The completion of call i with id: the rewrite, the refresh of the buttons
\* for the changed document, and the return.
Complete(i, id, d2) ==
  /\ doc' = d2
  /\ buttons' = createSyncButtonDecorations(d2)
  /\ sync' = AfterWrite(i, id, d2)
  /\ syncStates' = SettledStates(StatesAfter(syncStates, doc, d2), sync[i], "synced")
  /\ auto' = Modified(auto, doc, d2)

\* DexApiClient.updateNote: the PUT succeeds and the sync completes.
UpdateOk(i) ==
  /\ sync[i].pc = "updateNote"
  /\ Len(sync[i].existingMemoId) = 1
  /\ Head(sync[i].existingMemoId) \in remote
  /\ Complete(i, sync[i].existingMemoId, Rewritten(doc, sync[i], sync[i].existingMemoId))
  /\ UNCHANGED << remote, created, starts, edits, profiles, manager, fetch >>

\* A variant of UpdateFails without the fallback: the error of the PUT
\* propagates.
UpdateThrows(i) ==
  /\ sync[i].pc = "updateNote"
  /\ sync' = [sync EXCEPT ![i].pc = "thrown"]
  /\ syncStates' = SettledStates(syncStates, sync[i], "error")
  /\ UNCHANGED << doc, buttons, remote, created, starts, edits, profiles, manager, fetch, auto >>

\* DexApiClient.updateNote: the PUT fails (the memo is gone, or any other
\* error) and the catch block calls createNote.
UpdateFails(i) ==
  /\ sync[i].pc = "updateNote"
  /\ sync' = [sync EXCEPT ![i].pc = "fallbackCreate",
                          ![i].calls = Append(@, "POST")]
  /\ UNCHANGED << doc, buttons, remote, created, starts, edits, syncStates, profiles, manager, fetch, auto >>

\* DexApiClient.createNote succeeds: the remote service creates a memo and
\* the sync completes with its id.
CreateOk(i) ==
  /\ sync[i].pc \in {"createNote", "fallbackCreate"}
  /\ created < Len(MemoIds)
  /\ remote' = remote \cup {MemoIds[created + 1]}
  /\ created' = created + 1
  /\ Complete(i, << MemoIds[created + 1] >>,
              Rewritten(doc, sync[i], << MemoIds[created + 1] >>))
  /\ UNCHANGED << starts, edits, profiles, manager, fetch >>

\* A variant of DocAfterThrow that records a fallback id in the start line.
DocWithFallbackId(d, c) == Rewritten(d, c, << "memo_", "1" >>)

\* The document after a call's remote request failed: the error leaves
\* syncContactMemo at the await, no statement after it runs.
DocAfterThrow(d, c) == d

\* DexApiClient.createNote fails: the error propagates out of syncContactMemo.
CreateFails(i) ==
  /\ sync[i].pc \in {"createNote", "fallbackCreate"}
  /\ doc' = DocAfterThrow(doc, sync[i])
  /\ buttons' = createSyncButtonDecorations(doc')
  /\ sync' = [sync EXCEPT ![i].pc = "thrown"]
  /\ syncStates' = SettledStates(StatesAfter(syncStates, doc, doc'), sync[i], "error")
  /\ auto' = Modified(auto, doc, doc')
  /\ UNCHANGED << remote, created, starts, edits, profiles, manager, fetch >>

\* The user types character ch at the end of line ln (1-based).
UserEdit(ln, ch) ==
  /\ edits < MaxEdits
  /\ doc' = [doc EXCEPT ![ln] = Append(@, ch)]
  /\ buttons' = createSyncButtonDecorations(doc')
  /\ edits' = edits + 1
  /\ sync' = [j \in Syncs |-> [sync[j] EXCEPT !.clean = FALSE, !.fresh = FALSE]]
  /\ syncStates' = ResetStates(syncStates)
  /\ auto' = UserModified(auto, doc, doc')
  /\ UNCHANGED << remote, created, starts, profiles, manager, fetch >>

\* The user deletes memo m in the remote service.
RemoteDelete(m) ==
  /\ m \in remote
  /\ remote' = remote \ {m}
  /\ UNCHANGED << doc, buttons, created, sync, starts, edits, syncStates, profiles, manager, fetch, auto >>

Next ==
  \/ \E b \in buttons : handleProfileClick(b)
  \/ \E i \in Syncs, b \in buttons : handleSyncClick(i, b)
  \/ \E i \in Syncs, ln \in 0..(Len(doc) - 1), c \in Contacts : CommandSync(i, ln, c)
  \/ \E i \in Syncs : UpdateOk(i)
  \/ \E i \in Syncs : UpdateFails(i)
  \/ \E i \in Syncs : CreateOk(i)
  \/ \E i \in Syncs : CreateFails(i)
  \/ \E ln \in 1..Len(doc) : UserEdit(ln, "b")
  \/ \E m \in remote : RemoteDelete(m)

Spec == Init /\ [][Next]_vars

\* ------------------------------------------------------------------------
\* Properties
\* ------------------------------------------------------------------------

\* The text of the start line of call c.
StartLineOf(c) == doc[c.lineNumber + 1]

\* A call that returned after a remote request succeeded.
Synced(c) == c.pc = "returned" /\ c.calls # << >>

\* The positions after the links of line s that a sync of contact takes for
\* the contact's link: a Dex URL link to the contact's id, or a vault link.
LinkEnds(s, contact) ==
  ({DexLinkEnd(s, p, contact) : p \in 1..Len(s)}
     \cup {VaultLinkEnd(s, p) : p \in 1..Len(s)}) \ {0}

\* The match m of MEMO_ID_PATTERN is an annotation with these three fields.
IsAnnotation(m, contact, memoId, hash) ==
  m.ok /\ m.g1 = contact /\ m.g2 = memoId /\ m.g3 = hash

\* Line s carries, directly after a link of the contact, the annotation with
\* the three fields.
CarriesAnnotation(s, contact, memoId, hash) ==
  \E l \in LinkEnds(s, contact) :
     IsAnnotation(MemoMatchAt(s, l), contact, memoId, hash)

\* The characters of id do not start with the fallback marker memo_.
IsRemoteId(id) ==
  /\ id # << >>
  /\ ~(Len(Expand(id)) >= 5 /\ SubSeq(Expand(id), 1, 5) = << "m", "e", "m", "o", "_" >>)

\* C1: a sync started on a block whose annotation carries a memo id and a
\* stored hash equal to the hash of the block's current content (a block the
\* classifier reports as synced) makes no remote call and returns the
\* existing memo id.
C1_SyncedBlockIsSkipped ==
  \A i \in Syncs :
     (sync[i].pc # "idle" /\ sync[i].statusAtStart = "synced")
        => /\ sync[i].calls = << >>
           /\ sync[i].pc = "returned"
           /\ sync[i].result = sync[i].existingMemoId

\* C2: after a sync returned from a successful remote call and wrote the
\* annotation, and nothing else changed the document since the sync started,
\* detection and hashing of the rewritten text classify the block as synced.
C2_SyncedAfterSync ==
  \A i \in Syncs :
     (Synced(sync[i]) /\ sync[i].wrote /\ sync[i].clean)
        => findContentBlockEnd(doc, sync[i].lineNumber).syncStatus = "synced"

\* The memo id of the annotation of line s exists remotely.
AnnotatedMemoExists(s) ==
  MEMO_ID_PATTERN(s).g2 # << >> /\ Head(MEMO_ID_PATTERN(s).g2) \in remote

\* C3: a sync that overlaps no other sync never creates a memo while the memo
\* recorded in the annotation of its start line still exists remotely, and
\* the memo it created is the one the annotation records when it returns.
C3_NoDuplicateNoOrphan ==
  [][\A i \in Syncs :
        (created' = created + 1 /\ InFlight(i) /\ ~InFlight(i)' /\ sync[i].during = {})
           => /\ ~AnnotatedMemoExists(StartLineOf(sync[i]))
              /\ MEMO_ID_PATTERN(doc'[sync[i].lineNumber + 1]).g2 = sync'[i].result]_vars

\* C4: when the remote request of a sync fails for good, the call ends with
\* the error and without a memo id, the step changes no line and no button,
\* and a block that nothing else changed since the sync started has the
\* status it had when the sync started.
C4_FailureLeavesDocument ==
  [][\A i \in Syncs :
        (InFlight(i) /\ sync'[i].pc = "thrown")
           => /\ doc' = doc
              /\ buttons' = buttons
              /\ sync'[i].result = << >>
              /\ ~sync'[i].wrote
              /\ sync'[i].clean
                   => findContentBlockEnd(doc', sync'[i].lineNumber).syncStatus
                        = sync'[i].statusAtStart]_vars

\* A sync of a block in need of a resync failed, both the update and the
\* fallback create, and nothing else changed the document meanwhile.
C4_Witness ==
  \E i \in Syncs :
     /\ sync[i].pc = "thrown"
     /\ sync[i].calls = << "PUT", "POST" >>
     /\ sync[i].clean
     /\ sync[i].statusAtStart = "needs-resync"

\* C5: a failed update is followed by exactly one create; if the create
\* succeeds the sync returns the new memo's id and the annotation after the
\* contact's link records it with the hash of the synced content, if it fails
\* the sync ends with the error and the document as it was; a sync never
\* makes more than two remote requests.
C5_OneFallbackCreate ==
  [][\A i \in Syncs :
        /\ (sync[i].pc = "updateNote" /\ sync'[i].pc # "updateNote")
             => \/ /\ sync'[i].pc = "returned"
                   /\ sync'[i].calls = << "PUT" >>
                   /\ sync'[i].result = sync[i].existingMemoId
                   /\ created' = created
                \/ /\ sync'[i].pc = "fallbackCreate"
                   /\ sync'[i].calls = << "PUT", "POST" >>
                   /\ doc' = doc
                   /\ created' = created
        /\ (sync[i].pc = "fallbackCreate" /\ sync'[i].pc # "fallbackCreate")
             => \/ /\ sync'[i].pc = "returned"
                   /\ sync'[i].calls = << "PUT", "POST" >>
                   /\ sync'[i].result = << MemoIds[created + 1] >>
                   /\ created' = created + 1
                   /\ MemoIds[created + 1] \in remote'
                   /\ LinkEnds(StartLineOf(sync[i]), sync[i].contact) # {}
                        => CarriesAnnotation(doc'[sync[i].lineNumber + 1], sync[i].contact,
                                             << MemoIds[created + 1] >>,
                                             ContentHash(sync[i].fullContent))
                \/ /\ sync'[i].pc = "thrown"
                   /\ sync'[i].calls = << "PUT", "POST" >>
                   /\ doc' = doc
                   /\ created' = created
        /\ Len(sync'[i].calls) <= 2]_vars

\* A sync whose update failed returned the id of the memo created instead
\* and wrote it.
C5_Witness ==
  \E i \in Syncs :
     /\ sync[i].pc = "returned"
     /\ sync[i].calls = << "PUT", "POST" >>
     /\ sync[i].wrote
     /\ sync[i].result # sync[i].existingMemoId

\* C6: a sync that reaches the remote step starts with an update if and only
\* if the annotation of the start line carries a memo id that does not start
\* with memo_; otherwise it starts with a create.
C6_UpdateIffRemoteId ==
  [][\A i \in Syncs :
        (~InFlight(i) /\ InFlight(i)')
           => /\ sync'[i].pc \in {"updateNote", "createNote"}
              /\ (sync'[i].pc = "updateNote")
                   <=> IsRemoteId(MEMO_ID_PATTERN(doc[sync'[i].lineNumber + 1]).g2)
              /\ sync'[i].calls
                   = IF IsRemoteId(MEMO_ID_PATTERN(doc[sync'[i].lineNumber + 1]).g2)
                     THEN << "PUT" >> ELSE << "POST" >>]_vars

\* A sync of a block whose memo id starts with memo_ made a create request,
\* and one with a remote id an update request.
C6_Witness ==
  /\ \E i \in Syncs :
        /\ sync[i].calls = << "POST" >>
        /\ sync[i].existingMemoId = << "memo_", "1" >>
  /\ \E i \in Syncs :
        /\ sync[i].calls = << "PUT" >>
        /\ sync[i].existingMemoId = << "m1" >>

Overlapped(i, j) ==
  /\ i # j
  /\ Synced(sync[i]) /\ Synced(sync[j])
  /\ sync[j].seq \in sync[i].during
  /\ sync[i].lineNumber = sync[j].lineNumber
  /\ sync[i].contact = sync[j].contact
  /\ sync[i].statusAtStart = "not-synced" /\ sync[j].statusAtStart = "not-synced"

\* C8: two overlapping syncs of a block without memo both read no memo id,
\* both make one create request, two different memos are created, and while
\* nothing changes the document after the later return the annotation after
\* the contact's link carries the id of the call that returned last.
C8_OverlappingSyncsBothCreate ==
  \A i, j \in Syncs :
     Overlapped(i, j)
        => /\ sync[i].existingMemoId = << >> /\ sync[j].existingMemoId = << >>
           /\ sync[i].calls = << "POST" >> /\ sync[j].calls = << "POST" >>
           /\ sync[i].result # sync[j].result
           /\ \E k, l \in 1..created :
                 k # l /\ sync[i].result = << MemoIds[k] >> /\ sync[j].result = << MemoIds[l] >>
           /\ (sync[i].fresh /\ LinkEnds(StartLineOf(sync[i]), sync[i].contact) # {})
                => MEMO_ID_PATTERN(StartLineOf(sync[i])).g2 = sync[i].result

\* Two overlapping syncs of a block without memo have returned, both wrote,
\* and the second write replaced the first.
C8_Witness ==
  \E i, j \in Syncs :
     /\ Overlapped(i, j)
     /\ sync[i].wrote /\ sync[j].wrote
     /\ sync[i].fresh /\ ~sync[j].fresh

\* C10: for every block with a sync button, the status bar count, the
\* auto-sync test and the skip test of syncContactMemo decide "synced" exactly
\* when the button's status is synced.
C10_DecidersAgree ==
  \A b \in buttons :
     IsTracked(doc[b.line + 1])
        => /\ CountsAsSynced(doc, b.line) <=> (b.syncStatus = "synced")
           /\ ShouldSync(doc, b.line) <=> (b.syncStatus # "synced")
           /\ SkipSync(doc, b.line) <=> (b.syncStatus = "synced")

\* ------------------------------------------------------------------------
\* The classifier on its own: documents of one block drawn from the
\* combinations of link, annotation fields and content, and edited
\* ------------------------------------------------------------------------

\* The annotation with the given fields in the order of the grammar; an
\* absent field is << >>.
Annotation(contactId, memoId, hash) ==
  << "%%dex:" >>
     \o (IF contactId = << >> THEN << >> ELSE << "contact-id=" >> \o contactId)
     \o (IF memoId = << >> THEN << >> ELSE << ",memo-id=" >> \o memoId)
     \o (IF hash = << >> THEN << >> ELSE << ",hash=" >> \o hash)
     \o << "%%" >>

\* The annotations put after the link of a block whose content has hash h:
\* none, and the combinations of present and absent fields.
Annotations(h) ==
  {<< >>}
    \cup {Annotation(c, m, g) :
            c \in {<< >>, << "c1" >>},
            m \in {<< >>, << "m1" >>, << "memo_", "1" >>},
            g \in {<< >>, h, << "z" >>}}
    \cup {<< "%%dex:", "contact-id=", "c1", ",memo-id=", "%%" >>,
          << "%%dex:", "contact-id=", "c1", ",memo-id=", ",hash=" >> \o h \o << "%%" >>}

\* A document of one block: an optional list marker, the link, the
\* annotation, the rest of the start line, and the lines below.
BlockDoc(marker, link, annotation, rest, below) ==
  << marker \o link \o annotation \o rest >> \o below

\* The content of that block without annotation, as a sync stores its hash.
BlockText(marker, link, rest, below) ==
  JoinLines(<< Trim(marker \o link \o rest) >> \o below)

ClassifierDocs ==
  {BlockDoc(k, l, a, r, b) :
     k \in {<< >>, << "-", " " >>},
     l \in {DexLink(<< "c1" >>), VaultLink},
     r \in {<< >>, << " ", "a" >>},
     b \in {<< >>, << Note >>},
     a \in UNION {Annotations(simpleHash(BlockText(k2, l2, r2, b2))) :
                    k2 \in {<< >>, << "-", " " >>},
                    l2 \in {DexLink(<< "c1" >>), VaultLink},
                    r2 \in {<< >>, << " ", "a" >>},
                    b2 \in {<< >>, << Note >>}}}

InitClassifier ==
  /\ doc \in ClassifierDocs
  /\ buttons = createSyncButtonDecorations(doc)
  /\ remote = {}
  /\ created = 0
  /\ sync = [i \in Syncs |-> Idle]
  /\ starts = 0
  /\ edits = 0
  /\ syncStates = NoStates
  /\ profiles = {}
  /\ manager = NoManager
  /\ fetch = NoFetch
  /\ auto = NoAuto

NextClassifier == \E ln \in 1..Len(doc) : UserEdit(ln, "b")

SpecClassifier == InitClassifier /\ [][NextClassifier]_vars

\* The annotation of a start line read by its grammar, for the claims: the
\* text between the first %%dex: and the next %%, a field's value being
\* what follows its key up to the next key.
KeyAtoms == {"contact-id=", ",memo-id=", ",hash="}

\* The first position from p on that holds x, or 0.
PosOf(s, p, x) ==
  IF \E q \in p..Len(s) : s[q] = x
  THEN MinOf({q \in p..Len(s) : s[q] = x}) ELSE 0

\* The end (exclusive) of the value that starts at p inside an annotation
\* closed at q.
ValueEnd(s, p, q) == MinOf({r \in p..q : r = q \/ s[r] \in KeyAtoms})

\* The value of the field whose key stands at k (0: no such key).
ValueAt(s, k, q) ==
  IF k = 0 \/ k > q THEN << >> ELSE Slice(s, k + 1, ValueEnd(s, k + 1, q))

\* The fields of the annotation opened at p and closed at q (0: none).
FieldsBetween(s, p, q) ==
  IF p = 0 \/ q = 0 THEN [memoId |-> << >>, hash |-> << >>]
  ELSE [memoId |-> ValueAt(s, PosOf(s, p, ",memo-id="), q),
        hash   |-> ValueAt(s, PosOf(s, p, ",hash="), q)]

FieldsFrom(s, p) == FieldsBetween(s, p, IF p = 0 THEN 0 ELSE PosOf(s, p + 1, "%%"))

ReadAnnotation(s) == FieldsFrom(s, PosOf(s, 1, "%%dex:"))

\* The status the table gives for the fields read and the current hash.
TableStatus(fields, currentHash) ==
  IF fields.memoId = << >> THEN "not-synced"
  ELSE IF fields.hash = << >> THEN "needs-resync"
  ELSE IF fields.hash = currentHash THEN "synced"
  ELSE "needs-resync"

ExpectedStatus(d, lineNum) ==
  TableStatus(ReadAnnotation(d[lineNum + 1]), findContentBlockEnd(d, lineNum).contentHash)

contactName(contact) == IF contact = << "c1" >> THEN << "J" >> ELSE << "K" >>

\* if (contact && !mentionedContacts.includes(contact)) push(contact)
PushOnce(acc, contact) ==
  IF contact # << >> /\ contact \notin {acc[k] : k \in 1..Len(acc)}
  THEN Append(acc, contact) ELSE acc

\* name.replace('@', '').trim() for a name whose first "@" is at k (behind
\* the name: none).
CleanName(name, k) == Trim(SubSeq(name, 1, k - 1) \o SubSeq(name, k + 1, Len(name)))

\* contacts.find(c => c.name.toLowerCase().includes(cleanName...)): the
\* first loaded contact whose name includes cleanName, or << >>.
ContactNamed(cleanName) ==
  IF \E k \in 0..(1 - Len(cleanName)) :
        SubSeq(contactName(<< "c1" >>), k + 1, k + Len(cleanName)) = cleanName
  THEN << "c1" >>
  ELSE IF \E k \in 0..(1 - Len(cleanName)) :
             SubSeq(contactName(<< "c2" >>), k + 1, k + Len(cleanName)) = cleanName
  THEN << "c2" >> ELSE << >>

\* The name of a vault link: the display text if there is one, else the
\* link text.
VaultName(linkText, displayText) ==
  ContactNamed(CleanName(IF displayText # << >> THEN displayText ELSE linkText,
                         MinOf({k \in 1..Len(IF displayText # << >> THEN displayText
                                             ELSE linkText) :
                                  (IF displayText # << >> THEN displayText
                                   ELSE linkText)[k] = "@"}
                               \cup {Len(linkText) + Len(displayText) + 1})))

\* \[\[([^\]|]*@[^\]|]*)[|\]]([^\]]*)\]\] anchored at p, e being the end of
\* group 1 and f that of group 2: the contact of the link, or << >>.
VaultMention(s, p, e, f) ==
  IF /\ LitAt(s, p, << "[", "[" >>)
     /\ \E k \in (p + 2)..(e - 1) : s[k] = "@"
     /\ e <= Len(s) /\ s[e] \in {"|", "]"}
     /\ LitAt(s, f, << "]", "]" >>)
  THEN VaultName(Slice(s, p + 2, e), Slice(s, e + 1, f))
  ELSE << >>

\* findContactsInLine: the contact of the match anchored at p, or << >>.
\* Pass 1 takes the Dex URL links with "@" in their text, by the id of the
\* URL; pass 2 the vault links, by name.
MentionAt(s, p, pass) ==
  IF pass = 1
  THEN (IF IsMention(DexUrlAt(s, p), DexUrlAt(s, p).id) /\ DexUrlAt(s, p).id \in Contacts
        THEN DexUrlAt(s, p).id ELSE << >>)
  ELSE VaultMention(s, p, RunEnd(s, p + 2, "[^]|]"),
                    RunEnd(s, RunEnd(s, p + 2, "[^]|]") + 1, "[^]]"))

\* mentionedContacts from step p on: the steps 1..Len(s) are the positions
\* of pass 1, the steps behind them those of pass 2; a contact is pushed
\* once.
RECURSIVE MentionedFrom(_, _, _)
MentionedFrom(s, p, acc) ==
  IF p > 2 * Len(s) \/ Len(acc) < 0 THEN acc
  ELSE MentionedFrom(s, p + 1,
         IF p <= Len(s) THEN PushOnce(acc, MentionAt(s, p, 1))
         ELSE PushOnce(acc, MentionAt(s, p - Len(s), 2)))

mentionedContacts(lineContent) == MentionedFrom(lineContent, 1, << >>)

\* syncCurrentLine: with one contact on the cursor's line that contact is
\* synced; with several, all are, one after the other: the k-th after the
\* call for the one before it has ended.
syncCurrentLine(i, lineNumber, k) ==
  \E contact \in Contacts :
     /\ k \in 1..Len(mentionedContacts(doc[lineNumber + 1]))
     /\ contact = mentionedContacts(doc[lineNumber + 1])[k]
     /\ k > 1 => \E j \in Syncs :
                    /\ sync[j].pc \in {"returned", "thrown"}
                    /\ sync[j].lineNumber = lineNumber
                    /\ sync[j].contact = mentionedContacts(doc[lineNumber + 1])[k - 1]
     /\ SyncStart(i, lineNumber, contact)

\* syncAllMemos: on every line with mentions, the first of mentionedContacts
\* is synced.
syncAllMemos(i, lineNumber) ==
  \E contact \in Contacts :
     /\ mentionedContacts(doc[lineNumber + 1]) # << >>
     /\ contact = Head(mentionedContacts(doc[lineNumber + 1]))
     /\ SyncStart(i, lineNumber, contact)

\* The lines the loops of countMemos and performAutoSync take as the start
\* of a tracked block, from line i (0-based) on: after a tracked line the
\* loop continues behind the end of its block.
RECURSIVE TrackedFrom(_, _, _)
TrackedFrom(d, i, acc) ==
  IF i >= Len(d) \/ Cardinality(acc) < 0 THEN acc
  ELSE IF IsTracked(d[i + 1])
  THEN TrackedFrom(d, getContentBlock(d, i).endLine + 1, acc \cup {i})
  ELSE TrackedFrom(d, i + 1, acc)

\* line.match(/%%dex:contact-id=([^,%)]+)/) of performAutoSync: the trimmed
\* id of the leftmost match, or << >>.
AutoContact(s) ==
  LET ps == {p \in 1..Len(s) : /\ LitAt(s, p, << "%%dex:", "contact-id=" >>)
                               /\ RunEnd(s, p + 2, "[^,%)]") > p + 2}
  IN  IF ps = {} THEN << >>
      ELSE Trim(Slice(s, MinOf(ps) + 2, RunEnd(s, MinOf(ps) + 2, "[^,%)]")))

\* performAutoSync: when countMemos finds an unsynced block, a tracked block
\* that should sync is synced for the contact named in the first Dex comment
\* of its start line.
performAutoSync(i, lineNumber) ==
  \E contact \in Contacts :
     /\ \E l \in TrackedFrom(doc, 0, {}) : ~CountsAsSynced(doc, l)
     /\ lineNumber \in TrackedFrom(doc, 0, {})
     /\ ShouldSync(doc, lineNumber)
     /\ contact = AutoContact(doc[lineNumber + 1])
     /\ SyncStart(i, lineNumber, contact)

\* The user types character ch behind the first p lexemes of line ln
\* (1-based).
UserType(ln, p, ch) ==
  /\ edits < MaxEdits
  /\ doc' = [doc EXCEPT ![ln] = SubSeq(@, 1, p) \o << ch >> \o SubSeq(@, p + 1, Len(@))]
  /\ buttons' = createSyncButtonDecorations(doc')
  /\ edits' = edits + 1
  /\ sync' = [j \in Syncs |-> [sync[j] EXCEPT !.clean = FALSE, !.fresh = FALSE]]
  /\ syncStates' = ResetStates(syncStates)
  /\ auto' = UserModified(auto, doc, doc')
  /\ UNCHANGED << remote, created, starts, profiles, manager, fetch >>

\* The text of the link the user re-links (originalLinkText), and the
\* display text formatLinkTextForContact gives a contact.
originalLinkText == << "@", "J" >>

newDisplayText(contact) == << "@" >> \o contactName(contact)

\* The end (exclusive) of the match, anchored at p, of the link pattern
\* number kind of updateLinkWithContactId for the text o, or 0:
\*   1  \[\[o\|o\]\]     2  \[\[[^\]]*o\|o\]\]     3  \[\[o\]\]
\*   4  \[o\]\(([^)]+)\)
\* The flag i of the patterns plays no part: the texts here differ by more
\* than case.
LinkPatternEnd(s, p, kind, o) ==
  LET both == o \o << "|" >> \o o \o << "]", "]" >>
      js   == {j \in (p + 2)..Len(s) :
                 /\ \A k \in (p + 2)..(j - 1) : InClass(s[k], "[^]]")
                 /\ LitAt(s, j, both)}
      q    == p + Len(o) + 3
  IN  CASE kind = 1 ->
             IF LitAt(s, p, << "[", "[" >> \o both) THEN p + 2 + Len(both) ELSE 0
        [] kind = 2 ->
             IF LitAt(s, p, << "[", "[" >>) /\ js # {}
             THEN (CHOOSE j \in js : \A k \in js : k <= j) + Len(both) ELSE 0
        [] kind = 3 ->
             IF LitAt(s, p, << "[", "[" >> \o o \o << "]", "]" >>)
             THEN p + Len(o) + 4 ELSE 0
        [] kind = 4 ->
             IF /\ LitAt(s, p, << "[" >> \o o \o << "]", "(" >>)
                /\ RunEnd(s, q, "[^)]") > q
                /\ LitAt(s, RunEnd(s, q, "[^)]"), << ")" >>)
             THEN RunEnd(s, q, "[^)]") + 1 ELSE 0

\* String.replace of the global link pattern number kind from position p
\* on: every match becomes a link with the text n; acc is the text so far.
RECURSIVE ReplaceLinks(_, _, _, _, _, _)
ReplaceLinks(s, p, kind, o, n, acc) ==
  IF p > Len(s) \/ Len(acc) < 0 THEN acc
  ELSE IF LinkPatternEnd(s, p, kind, o) = 0
  THEN ReplaceLinks(s, p + 1, kind, o, n, Append(acc, s[p]))
  ELSE ReplaceLinks(s, LinkPatternEnd(s, p, kind, o), kind, o, n,
         acc \o (CASE kind \in {1, 2} -> << "[", "[" >> \o n \o << "|" >> \o n \o << "]", "]" >>
                   [] kind = 3 -> << "[", "[" >> \o n \o << "]", "]" >>
                   [] kind = 4 -> << "[" >> \o n \o << "]", "(" >>
                                    \o Slice(s, p + Len(o) + 3, LinkPatternEnd(s, p, kind, o) - 1)
                                    \o << ")" >>))

\* The match, anchored at p, of the comment pattern number kind of
\* updateLinkWithContactId for the new text n: <<end of the link, end of
\* the match>>, or << 0, 0 >>:
\*   1  (\[\[n\]\])\s*%%dex:contact-id=[^%]*%%    3  (\[\[n\]\])(?!%%dex:)
\*   2  (\[n\]\([^)]+\))\s*%%dex:contact-id=[^%]*%%   4  (\[n\]\([^)]+\))(?!%%dex:)
CommentPatternAt(s, p, kind, n) ==
  LET e1 == LinkPatternEnd(s, p, IF kind \in {1, 3} THEN 3 ELSE 4, n)
      w  == RunEnd(s, e1, "\\s")
      c  == RunEnd(s, w + 2, "[^%]")
  IN  IF e1 = 0 THEN << 0, 0 >>
      ELSE IF kind \in {3, 4}
      THEN (IF LitAt(s, e1, << "%%dex:" >>) THEN << 0, 0 >> ELSE << e1, e1 >>)
      ELSE IF LitAt(s, w, << "%%dex:", "contact-id=" >>) /\ LitAt(s, c, << "%%" >>)
      THEN << e1, c + 1 >> ELSE << 0, 0 >>

\* The line with the Dex comment of the re-linked link added or replaced:
\* the leftmost match of the first comment pattern that matches becomes the
\* link, the comment with the contact id alone, and a space.
RECURSIVE WithContactComment(_, _, _, _)
WithContactComment(s, kind, n, id) ==
  LET ps == {p \in 1..Len(s) : CommentPatternAt(s, p, kind, n)[1] > 0}
      m  == CommentPatternAt(s, MinOf(ps), kind, n)
  IN  IF kind > 4 THEN s
      ELSE IF ps = {} THEN WithContactComment(s, kind + 1, n, id)
      ELSE SubSeq(s, 1, m[1] - 1) \o ContactOnly(id) \o << " " >>
             \o SubSeq(s, m[2], Len(s))

\* updateLinkWithContactId for the link with originalLinkText on line
\* targetLineNum (0-based) and the contact newContact: the first link pattern
\* that matches is replaced, then the comment; without a match nothing is
\* written.
updateLinkWithContactId(targetLineNum, newContact) ==
  LET line  == doc[targetLineNum + 1]
      kinds == {k \in 1..4 : \E p \in 1..Len(line) :
                                LinkPatternEnd(line, p, k, originalLinkText) > 0}
      kind  == MinOf(kinds)
  IN  /\ edits < MaxEdits
      /\ kinds # {}
      /\ doc' = [doc EXCEPT ![targetLineNum + 1] =
                   WithContactComment(
                     ReplaceLinks(line, 1, kind, originalLinkText,
                                  newDisplayText(newContact), << >>),
                     1, newDisplayText(newContact), newContact)]
      /\ buttons' = createSyncButtonDecorations(doc')
      /\ edits' = edits + 1
      /\ sync' = [j \in Syncs |-> [sync[j] EXCEPT !.clean = FALSE, !.fresh = FALSE]]
      /\ syncStates' = ResetStates(syncStates)
      /\ auto' = UserModified([auto EXCEPT !.skipNext = TRUE], doc, doc')
      /\ UNCHANGED << remote, created, starts, profiles, manager, fetch >>

\* cleanedContent.replace(/\s+$/gm, '') from position p on: a run of white
\* space that reaches the end of the content is removed; one that holds a
\* line break behind its first character is removed up to its last line
\* break; acc is the text so far.
RECURSIVE TrimLineEnds(_, _, _)
TrimLineEnds(s, p, acc) ==
  LET b   == RunEnd(s, p, "\\s")
      nls == {q \in (p + 1)..(b - 1) : s[q] = "\n"}
  IN  IF p > Len(s) \/ Len(acc) < 0 THEN acc
      ELSE IF b > Len(s) THEN acc
      ELSE IF nls # {}
      THEN TrimLineEnds(s, CHOOSE q \in nls : \A r \in nls : r <= q, acc)
      ELSE TrimLineEnds(s, p + 1, Append(acc, s[p]))

\* The text s from position p on with the characters %%dex: that have come
\* to stand side by side read as the opening of a comment; acc is the text
\* so far.
RECURSIVE Relex(_, _, _)
Relex(s, p, acc) ==
  IF p > Len(s) \/ Len(acc) < 0 THEN acc
  ELSE IF LitAt(s, p, << "%%", "d", "e", "x", ":" >>)
  THEN Relex(s, p + 5, Append(acc, "%%dex:"))
  ELSE Relex(s, p + 1, Append(acc, s[p]))

\* cleanupDexTags: when the content holds a Dex comment, all are removed in
\* one pass of String.replace, then the white space at the line ends, and
\* the content is set.
cleanupDexTags ==
  /\ edits < MaxEdits
  /\ MEMO_ID_CLEANUP(JoinLines(doc)) # JoinLines(doc)
  /\ doc' = SplitLines(Relex(TrimLineEnds(MEMO_ID_CLEANUP(JoinLines(doc)), 1, << >>),
                             1, << >>),
                       1, << << >> >>)
  /\ buttons' = createSyncButtonDecorations(doc')
  /\ edits' = edits + 1
  /\ sync' = [j \in Syncs |-> [sync[j] EXCEPT !.clean = FALSE, !.fresh = FALSE]]
  /\ syncStates' = ResetStates(syncStates)
  /\ auto' = UserModified(auto, doc, doc')
  /\ UNCHANGED << remote, created, starts, profiles, manager, fetch >>

\* ------------------------------------------------------------------------
\* The plugin on lines with several mentions
\* ------------------------------------------------------------------------

\* The initial documents with the memos that exist remotely for them: lines
\* with two mentions, Dex URL links and vault links in both orders, and a
\* document of two blocks.  The vault links are those the plugin inserts
\* with includeAtSymbol: [[@Name|@Name]].
PluginDocs ==
  LET vault(c) == << "[", "[", "@" >> \o contactName(c) \o << "|", "@" >>
                    \o contactName(c) \o << "]", "]" >>
      c1 == << "c1" >>
      c2 == << "c2" >>
      z  == << "z" >>
  IN { \* Dex URL links, the first synced before
       [doc |-> << DexLink(c1) \o DexComment(c1, << "m1" >>, z) \o << " " >>
                     \o DexLink(c2) \o ContactOnly(c2) \o << " ", "a" >> >>,
        remote |-> {"m1"}],
       \* a vault link, then a Dex URL link
       [doc |-> << vault(c1) \o ContactOnly(c1) \o << " ", " " >>
                     \o DexLink(c2) \o << " " >> \o DexComment(c2, << "m1" >>, z),
                   Note >>,
        remote |-> {"m1"}],
       \* a Dex URL link, then a vault link
       [doc |-> << << "-", " " >> \o DexLink(c2) \o ContactOnly(c2) \o << " " >>
                     \o vault(c1) \o DexComment(c1, << "m1" >>, z) \o << " ", "a" >> >>,
        remote |-> {}],
       \* two vault links
       [doc |-> << vault(c1) \o ContactOnly(c1) \o << " ", "a", " " >>
                     \o vault(c2) \o << " " >> \o ContactOnly(c2) >>,
        remote |-> {}],
       \* two blocks
       [doc |-> << << "-", " " >> \o DexLink(c1) \o ContactOnly(c1) \o << " ", "a" >>,
                   << "-", " " >> \o DexLink(c2) \o ContactOnly(c2) >>,
        remote |-> {}],
       \* a link to a note before the mention
       [doc |-> << << "[", "[", "b", "]", "]", " " >> \o DexLink(c1)
                     \o ContactOnly(c1) >>,
        remote |-> {}],
       \* text of the user in which a Dex comment stands between the
       \* characters %%dex and :b%%
       [doc |-> << DexLink(c1) \o ContactOnly(c1)
                     \o << " ", "%%", "d", "e", "x" >> \o ContactOnly(c2)
                     \o << ":", "b", "%%" >> >>,
        remote |-> {}],
       \* two paragraphs with a blank line between them
       [doc |-> << DexLink(c1) \o ContactOnly(c1) \o << " ", "a" >>, << >>, << "b" >> >>,
        remote |-> {}] }

InitPlugin ==
  /\ \E d \in PluginDocs :
        /\ doc = d.doc
        /\ buttons = createSyncButtonDecorations(d.doc)
        /\ remote = d.remote
        /\ created = Cardinality(d.remote)
  /\ sync = [i \in Syncs |-> Idle]
  /\ starts = 0
  /\ edits = 0
  /\ syncStates = NoStates
  /\ profiles = {}
  /\ manager = NoManager
  /\ fetch = NoFetch
  /\ auto = NoAuto

\* The calls take the call slots in order; the user types a space behind a
\* link.
NextPlugin ==
  \/ \E b \in buttons : handleProfileClick(b)
  \/ \E i \in Syncs \cap {starts + 1}, b \in buttons : handleSyncClick(i, b)
  \/ \E i \in Syncs \cap {starts + 1}, ln \in 0..(Len(doc) - 1), k \in 1..2 :
        syncCurrentLine(i, ln, k)
  \/ \E i \in Syncs \cap {starts + 1}, ln \in 0..(Len(doc) - 1) : syncAllMemos(i, ln)
  \/ \E i \in Syncs \cap {starts + 1}, ln \in 0..(Len(doc) - 1) : performAutoSync(i, ln)
  \/ \E i \in Syncs : UpdateOk(i)
  \/ \E i \in Syncs : UpdateFails(i)
  \/ \E i \in Syncs : CreateOk(i)
  \/ \E i \in Syncs : CreateFails(i)
  \/ \E ln \in 1..Len(doc) :
        \E p \in {q \in 2..Len(doc[ln]) :
                    doc[ln][q] = ")" \/ (doc[ln][q] = "]" /\ doc[ln][q - 1] = "]")} :
           UserType(ln, p, " ")
  \/ \E ln \in 0..(Len(doc) - 1), c \in Contacts : updateLinkWithContactId(ln, c)
  \/ cleanupDexTags

SpecPlugin == InitPlugin /\ [][NextPlugin]_vars

\* ------------------------------------------------------------------------
\* Properties of the rewrite on lines with several mentions
\* ------------------------------------------------------------------------

\* The match the rewrite of line s for the contact acts on: the first of the
\* four patterns that matches.
TargetMatch(s, contact) ==
  IF FirstLinkMatch(s, contact, "dexUrlWithComment").ok
  THEN FirstLinkMatch(s, contact, "dexUrlWithComment")
  ELSE IF FirstLinkMatch(s, contact, "vaultLinkWithComment").ok
  THEN FirstLinkMatch(s, contact, "vaultLinkWithComment")
  ELSE IF FirstLinkMatch(s, contact, "dexUrlPattern").ok
  THEN FirstLinkMatch(s, contact, "dexUrlPattern")
  ELSE FirstLinkMatch(s, contact, "vaultLinkPattern")

\* The text new holds the text old outside the positions a..b-1 of old: what
\* stands before a is its start, what stands from b on its end.
KeptOutside(old, new, a, b) ==
  /\ Len(new) >= (a - 1) + (Len(old) - b + 1)
  /\ SubSeq(new, 1, a - 1) = Slice(old, 1, a)
  /\ SubSeq(new, Len(new) - (Len(old) - b), Len(new)) = Slice(old, b, Len(old) + 1)

\* Call i completes in this step and writes its start line.
Writes(i) == InFlight(i) /\ sync'[i].pc = "returned" /\ doc' # doc

AfterBoth(c1, id1, c2, id2) == Rewritten(Rewritten(doc, c1, id1), c2, id2)

\* C12: a step that is not an edit of the user changes no line but the start
\* line of a call that completes in it; and for two calls in flight on two
\* different blocks, the document after both is the same whichever completes
\* first, for all ids the remote service may return to them.
C12_OnlyStartLineAndOrderFree ==
  [][/\ edits' = edits =>
          /\ Len(doc') = Len(doc)
          /\ \A l \in 1..Len(doc) :
                doc'[l] # doc[l] =>
                  \E i \in Syncs : Writes(i) /\ sync[i].lineNumber + 1 = l
     /\ \A i, j \in Syncs :
          (InFlight(i) /\ InFlight(j) /\ sync[i].lineNumber # sync[j].lineNumber) =>
            \A id1, id2 \in {<< "m1" >>, << "m2" >>, << "m3" >>} :
               AfterBoth(sync[i], id1, sync[j], id2) = AfterBoth(sync[j], id2, sync[i], id1)
    ]_vars

\* Two overlapping syncs of two different blocks have both written their
\* start lines.
C12_Witness ==
  \E i, j \in Syncs :
     /\ sync[i].pc = "returned" /\ sync[i].wrote
     /\ sync[j].pc = "returned" /\ sync[j].wrote
     /\ sync[i].lineNumber # sync[j].lineNumber
     /\ sync[j].seq \in sync[i].during
     /\ \E b1, b2 \in buttons : b1.line = sync[i].lineNumber /\ b2.line = sync[j].lineNumber

\* A link of line s that ends at l is followed, from w on, by an annotation
\* with the contact id: that is, after white space.
AnnotatedAt(s, l, w, id) ==
  /\ l > 0
  /\ LitAt(s, w, << "%%dex:", "contact-id=" >> \o id)
  /\ w + 2 + Len(id) <= Len(s)
  /\ s[w + 2 + Len(id)] \in {"%%", ",memo-id=", ",hash="}
  /\ CleanupMatchEnd(s, w) > 0

\* The mention and annotation pairs of a contact on line s, each with the
\* white space around it, as << start, end >> (end exclusive): a Dex URL link
\* to the contact or a vault link, and the annotation with the contact's id.
PairsOf(s, id) ==
  { << MinOf({a \in 1..p : \A q \in a..(p - 1) : IsSpace(s[q])}),
       RunEnd(s, CleanupMatchEnd(s, RunEnd(s, DexLinkEnd(s, p, id), "\\s")), "\\s") >> :
      p \in {q \in 1..Len(s) :
               AnnotatedAt(s, DexLinkEnd(s, q, id), RunEnd(s, DexLinkEnd(s, q, id), "\\s"), id)} }
  \cup
  { << MinOf({a \in 1..p : \A q \in a..(p - 1) : IsSpace(s[q])}),
       RunEnd(s, CleanupMatchEnd(s, RunEnd(s, VaultLinkEnd(s, p), "\\s")), "\\s") >> :
      p \in {q \in 1..Len(s) :
               AnnotatedAt(s, VaultLinkEnd(s, q), RunEnd(s, VaultLinkEnd(s, q), "\\s"), id)} }

\* C13: when a sync for contact A rewrites a line that holds a mention and
\* annotation pair of A and one of another contact B, the text of B's pair -
\* link, annotation and the white space around them - stands unchanged in
\* the new line, at its place or moved by the change of the line's length.
C13_OtherPairUnchanged ==
  [][\A i \in Syncs, B \in Contacts :
       (/\ Writes(i)
        /\ B # sync[i].contact
        /\ PairsOf(StartLineOf(sync[i]), sync[i].contact) # {}) =>
          \A r \in PairsOf(StartLineOf(sync[i]), B) :
             \E k \in {0, Len(doc'[sync[i].lineNumber + 1]) - Len(StartLineOf(sync[i]))} :
                /\ r[1] + k >= 1
                /\ r[2] + k <= Len(doc'[sync[i].lineNumber + 1]) + 1
                /\ Slice(doc'[sync[i].lineNumber + 1], r[1] + k, r[2] + k)
                  = Slice(StartLineOf(sync[i]), r[1], r[2])]_vars

\* A sync has rewritten the annotation of its contact on a line where the
\* pair of the other contact comes first and has white space around it.
C13_Witness ==
  \E i \in Syncs, B \in Contacts :
     /\ sync[i].pc = "returned" /\ sync[i].wrote /\ sync[i].fresh
     /\ B # sync[i].contact
     /\ CarriesAnnotation(StartLineOf(sync[i]), sync[i].contact, sync[i].result,
                          ContentHash(sync[i].fullContent))
     /\ \E ra \in PairsOf(StartLineOf(sync[i]), sync[i].contact),
           rb \in PairsOf(StartLineOf(sync[i]), B) :
          rb[1] < ra[1] /\ IsSpace(StartLineOf(sync[i])[rb[2] - 1])

\* C14: after a sync wrote the annotation of its contact behind the
\* contact's link, and as long as the document is as the sync left it,
\* parsing the start line (MEMO_ID_PATTERN, as detectContentBlock applies it)
\* gives the contact id, the memo id and the hash that were written.
C14_ParseRecoversWritten ==
  \A i \in Syncs :
     (/\ sync[i].pc = "returned" /\ sync[i].wrote /\ sync[i].fresh
      /\ CarriesAnnotation(StartLineOf(sync[i]), sync[i].contact, sync[i].result,
                           ContentHash(sync[i].fullContent))) =>
        /\ IsAnnotation(MEMO_ID_PATTERN(StartLineOf(sync[i])), sync[i].contact,
                        sync[i].result, ContentHash(sync[i].fullContent))
        /\ detectContentBlock(doc, sync[i].lineNumber).memoId = sync[i].result

\* Line s holds a link for the contact: a Dex URL link to the contact's id,
\* or a vault link that belongs to the contact, by its annotation or, for a
\* link of the form findContactsInLine knows, by its name.
HasLinkFor(s, id) ==
  \E p \in 1..Len(s) :
     \/ DexLinkEnd(s, p, id) > 0
     \/ AnnotatedAt(s, VaultLinkEnd(s, p), RunEnd(s, VaultLinkEnd(s, p), "\\s"), id)
     \/ VaultLinkEnd(s, p) > 0 /\ MentionAt(s, p, 2) = id

\* C15: a sync whose start line holds no link for its contact does not
\* change the document: every call that writes finds a link for its contact
\* on the line it rewrites.
C15_NoLinkNoWrite ==
  [][\A i \in Syncs :
       Writes(i) => HasLinkFor(StartLineOf(sync[i]), sync[i].contact)]_vars

\* The positions of the mentions of line s: the links findContactsInLine
\* takes for a contact.
MentionPlaces(s) ==
  {p \in 1..Len(s) : MentionAt(s, p, 1) # << >> \/ MentionAt(s, p, 2) # << >>}

\* The contact of the first mention of line s (<< >>: no mention).
FirstMention(s) ==
  IF MentionPlaces(s) = {} THEN << >>
  ELSE IF MentionAt(s, MinOf(MentionPlaces(s)), 1) # << >>
  THEN MentionAt(s, MinOf(MentionPlaces(s)), 1)
  ELSE MentionAt(s, MinOf(MentionPlaces(s)), 2)

\* C16: every call of syncContactMemo that an entry point starts is for the
\* contact of the first mention of its line.
C16_OnlyFirstMention ==
  [][\A i \in Syncs :
       (sync'[i].seq = starts + 1 /\ starts' = starts + 1) =>
          sync'[i].contact = FirstMention(doc[sync'[i].lineNumber + 1])]_vars

\* The places of line s where an annotation carries a memo id.
MemoIdPlaces(s) ==
  {k \in 2..(Len(s) - 1) : s[k] = ",memo-id=" /\ s[k + 1] \notin KeyAtoms \cup {"%%"}}

\* C17: a step that is not the cleanup (which leaves no annotation in the
\* document) removes no memo id from an annotation: every line keeps at
\* least as many annotations with a memo id as it had.
C17_MemoIdStays ==
  [][\/ MEMO_ID_CLEANUP(JoinLines(doc')) = JoinLines(doc')
     \/ /\ Len(doc') = Len(doc)
        /\ \A l \in 1..Len(doc) :
              Cardinality(MemoIdPlaces(doc'[l])) >= Cardinality(MemoIdPlaces(doc[l]))]_vars

\* Document d holds no opening of a Dex comment, and findContentBlockEnd and
\* countMemos take none of its lines for a synced or tracked block.
NoAnnotationLeft(d) ==
  /\ \A l \in 1..Len(d) : \A k \in 1..Len(d[l]) : d[l][k] # "%%dex:"
  /\ \A l \in 1..Len(d) :
        /\ findContentBlockEnd(d, l - 1).syncStatus = "not-synced"
        /\ ~IsTracked(d[l])
  /\ createSyncButtonDecorations(d) = {}

HashDocs ==
  LET lines == { << "A", "a" >>, << "B", "B" >>, << "A", "b" >>, << "a" >> }
      start == DexLink(<< "c1" >>) \o ContactOnly(<< "c1" >>)
  IN  { << start, x, y >> : x \in lines, y \in lines }
        \cup { << start, x, y, w >> : x \in lines, y \in lines, w \in lines }

InitHash ==
  /\ doc \in HashDocs
  /\ buttons = createSyncButtonDecorations(doc)
  /\ remote = {}
  /\ created = 0
  /\ sync = [i \in Syncs |-> Idle]
  /\ starts = 0
  /\ edits = 0
  /\ syncStates = NoStates
  /\ profiles = {}
  /\ manager = NoManager
  /\ fetch = NoFetch
  /\ auto = NoAuto

\* The user exchanges the lines a and b (1-based) of the document; the
\* buttons are built again, with the hash of the block.
swapLines(a, b) ==
  /\ edits < MaxEdits
  /\ a < b
  /\ doc' = [doc EXCEPT ![a] = doc[b], ![b] = doc[a]]
  /\ buttons' = createSyncButtonDecorations(doc')
  /\ edits' = edits + 1
  /\ sync' = [j \in Syncs |-> [sync[j] EXCEPT !.clean = FALSE, !.fresh = FALSE]]
  /\ syncStates' = ResetStates(syncStates)
  /\ auto' = UserModified(auto, doc, doc')
  /\ UNCHANGED << remote, created, starts, profiles, manager, fetch >>

NextHash == \E a, b \in 2..Len(doc) : swapLines(a, b)

SpecHash == InitHash /\ [][NextHash]_vars

\* ------------------------------------------------------------------------
\* Properties of the hash
\* ------------------------------------------------------------------------

\* The places of line s where the value of a memo id or of a hash starts,
\* the hash in the form hash= or data-hash="...".
ValuePlaces(s) ==
  {k \in 2..Len(s) : s[k - 1] \in {",memo-id=", ",hash=", "data-hash=\""}}

\* Line s with the value that starts at k replaced by v.
RevalueAt(s, k, v) ==
  SubSeq(s, 1, k - 1) \o v
    \o SubSeq(s, MinOf({e \in k..(Len(s) + 1) :
                          e = Len(s) + 1 \/ s[e] \in KeyAtoms \cup {"%%", "\""}}),
              Len(s))

\* The block that starts at line ln (0-based) has the same current hash in
\* the documents d and d2, for the inline button and for syncContactMemo.
SameHash(d, d2, ln) ==
  /\ findContentBlockEnd(d2, ln).contentHash = findContentBlockEnd(d, ln).contentHash
  /\ ContentHash(getContentBlock(d2, ln).content) = ContentHash(getContentBlock(d, ln).content)

RECURSIVE PolySum(_, _, _)
PolySum(cs, i, acc) ==
  IF i > Len(cs) \/ acc < 0 THEN acc
  ELSE PolySum(cs, i + 1, acc * 31 + CharCode[cs[i]])

\* The hash token of the block of the mention in document d.
BlockToken(d) == findContentBlockEnd(d, 0).contentHash

\* This step exchanges the lines a and b, whose texts differ.
Exchanges(a, b) ==
  /\ a < b
  /\ doc[a] # doc[b]
  /\ doc' = [doc EXCEPT ![a] = doc[b], ![b] = doc[a]]

\* C20 as stated: exchanging two lines with different text of a block
\* changes the hash token of the block.
C20_ExchangeChangesToken ==
  [][\A a, b \in 2..Len(doc) : Exchanges(a, b) => BlockToken(doc') # BlockToken(doc)]_vars

\* C20, amended: exchanging two lines with different text of a block changes
\* the hash token, except when the two lines have the same length and the
\* same value of their characters as digits to the base 31 (as "Aa" and
\* "BB" have): then the token stays the same.
C20_ExchangeChangesTokenUnlessEqualSum ==
  [][\A a, b \in 2..Len(doc) :
       Exchanges(a, b) =>
         (BlockToken(doc') = BlockToken(doc)
            <=> /\ Len(Expand(doc[a])) = Len(Expand(doc[b]))
                /\ PolySum(Expand(doc[a]), 1, 0) = PolySum(Expand(doc[b]), 1, 0))]_vars

\* Lines were exchanged: the block ends with the lines "a" and "Aa", and its
\* token differs from the token it had with them in the other order.
C20_Witness ==
  /\ edits = 1
  /\ Len(doc) = 3
  /\ doc[2] = << "a" >> /\ doc[3] = << "A", "a" >>
  /\ BlockToken(doc) # BlockToken([doc EXCEPT ![2] = doc[3], ![3] = doc[2]])
  /\ \E b \in buttons : b.line = 0 /\ b.contentHash = BlockToken(doc)

\* ------------------------------------------------------------------------
\* Block detection on documents of list items, headers, quotes and text
\* ------------------------------------------------------------------------

\* The start lines: a mention as a list item, as text, and both indented.
StartLines ==
  LET mention == DexLink(<< "c1" >>) \o ContactOnly(<< "c1" >>)
  IN  { << "-", " " >> \o mention,
        mention,
        << " ", " ", "-", " " >> \o mention,
        << " ", " " >> \o mention }

\* The lines below the start line.
BelowLines ==
  { << "-", " ", "a" >>,
    << " ", " ", "-", " ", "a" >>,
    << "1", ".", " ", "a" >>,
    << "a" >>,
    << " ", " ", "a" >>,
    << " ", " ", " ", " ", "a" >>,
    << "#", " ", "a" >>,
    << " ", " ", "#", " ", "a" >>,
    << "#", "a" >>,
    << ">", " ", "a" >>,
    << >>,
    << " ", " " >> }

BlockDocs ==
  { << s, x, y, w >> : s \in StartLines, x \in BelowLines, y \in BelowLines, w \in BelowLines }

InitBlocks ==
  /\ doc \in BlockDocs
  /\ buttons = createSyncButtonDecorations(doc)
  /\ remote = {}
  /\ created = 0
  /\ sync = [i \in Syncs |-> Idle]
  /\ starts = 0
  /\ edits = 0
  /\ syncStates = NoStates
  /\ profiles = {}
  /\ manager = NoManager
  /\ fetch = NoFetch
  /\ auto = NoAuto

SpecBlocks == InitBlocks /\ [][NextHash]_vars

\* ------------------------------------------------------------------------
\* Properties of block detection
\* ------------------------------------------------------------------------

\* The number of white space characters a line starts with.
Indentation(line) == RunEnd(line, 1, "\\s") - 1

\* The line holds white space only.
Blank(line) == Indentation(line) = Len(line)

\* The text of a line behind its indentation.
Body(line) == SubSeq(line, Indentation(line) + 1, Len(line))

\* A list item: a marker *, - or +, or a number with "." or ")", then white
\* space.
ListItemLine(line) ==
  \/ \E t \in {"*", "-", "+"} : LitAt(Body(line), 1, << t, " " >>)
  \/ \E n \in 1..2 :
        /\ \A k \in 1..n : k <= Len(Body(line)) /\ IsDigit(Body(line)[k])
        /\ \E t \in {".", ")"} : LitAt(Body(line), n + 1, << t, " " >>)

\* The lines (0-based) below line s that are list items at the indentation
\* of line s.
Siblings(d, s) ==
  {k \in (s + 1)..(Len(d) - 1) :
     ListItemLine(d[k + 1]) /\ Indentation(d[k + 1]) = Indentation(d[s + 1])}

\* The lines between s and k are all indented more than line s.
DeeperBetween(d, s, k) ==
  \A j \in (s + 1)..(k - 1) :
     ~Blank(d[j + 1]) /\ Indentation(d[j + 1]) > Indentation(d[s + 1])

\* C21: when the start line is a list item, the block ends before the first
\* list item below it that has the start line's indentation (that line and
\* the lines after it are outside the block), and the lines before that item
\* are inside when they are indented more than the start line.
C21_StopsAtSiblingItem ==
  \A s \in 0..(Len(doc) - 1) : \A k \in Siblings(doc, s) :
     (ListItemLine(doc[s + 1]) /\ \A j \in Siblings(doc, s) : k <= j)
        => /\ detectContentBlock(doc, s).endLine < k
           /\ DeeperBetween(doc, s, k) => detectContentBlock(doc, s).endLine = k - 1
           /\ \A b \in buttons : b.line = s => b.endLine < k

\* Lines were exchanged and the document is a mention list item, an indented
\* note and a sibling item, then text: the block of the button is the first
\* two lines.
C21_Witness ==
  /\ edits = 1
  /\ doc[1] = << "-", " " >> \o DexLink(<< "c1" >>) \o ContactOnly(<< "c1" >>)
  /\ doc[2] = << " ", " ", "a" >>
  /\ doc[3] = << "-", " ", "a" >>
  /\ doc[4] = << "a" >>
  /\ \E b \in buttons : b.line = 0 /\ b.endLine = 1

\* A header: one to six "#" and then white space, at the start of the
\* trimmed text of the line.
HeaderLine(line) ==
  \E n \in 1..6 :
     /\ n + 1 <= Len(Trim(line))
     /\ \A k \in 1..n : Trim(line)[k] = "#"
     /\ Trim(line)[n + 1] = " "

\* The lines (0-based) below line s that are headers indented no more than
\* line s.
HeadersBelow(d, s) ==
  {k \in (s + 1)..(Len(d) - 1) :
     HeaderLine(d[k + 1]) /\ Indentation(d[k + 1]) <= Indentation(d[s + 1])}

\* C22: whatever the start line is (list item, text, header or quote), the
\* block ends before the first header below it that is indented no more than
\* the start line; if that header is the next line, the block is the start
\* line alone.
C22_StopsAtHeader ==
  \A s \in 0..(Len(doc) - 1) : \A k \in HeadersBelow(doc, s) :
     ~Blank(doc[s + 1])
        => /\ detectContentBlock(doc, s).endLine >= s
           /\ detectContentBlock(doc, s).endLine < k
           /\ \A b \in buttons : b.line = s => (b.endLine >= s /\ b.endLine < k)

\* Lines were exchanged and the document is a mention, a header and text:
\* the block of the button is the mention line alone.
C22_Witness ==
  /\ edits = 1
  /\ doc[1] = DexLink(<< "c1" >>) \o ContactOnly(<< "c1" >>)
  /\ doc[2] = << "#", " ", "a" >>
  /\ doc[3] = << "a" >>
  /\ \E b \in buttons : b.line = 0 /\ b.endLine = 0

\* A quote: ">" and then white space at the start of the trimmed text.
QuoteLine(line) == LitAt(Trim(line), 1, << ">", " " >>)

\* The rules for line k below the start line s, in their order: the line
\* continues the block.
Continues(d, s, k) ==
  IF Blank(d[k + 1]) THEN FALSE
  ELSE IF k \in Siblings(d, s) /\ ListItemLine(d[s + 1]) THEN FALSE
  ELSE IF k \in HeadersBelow(d, s) THEN FALSE
  ELSE \/ Indentation(d[k + 1]) > Indentation(d[s + 1])
       \/ QuoteLine(d[k + 1]) /\ Indentation(d[k + 1]) >= Indentation(d[s + 1])
       \/ /\ Indentation(d[k + 1]) = Indentation(d[s + 1])
          /\ ~ListItemLine(d[k + 1])
          /\ ~HeaderLine(d[k + 1])

FieldList(contactId, memoId, hash) ==
  (IF contactId = << >> THEN << >> ELSE << "contact-id=" >> \o contactId)
    \o (IF memoId = << >> THEN << >>
        ELSE IF contactId = << >>
             THEN << "m", "e", "m", "o", "-", "i", "d", "=" >> \o memoId
        ELSE << ",memo-id=" >> \o memoId)
    \o (IF hash = << >> THEN << >>
        ELSE IF contactId = << >> /\ memoId = << >>
             THEN << "h", "a", "s", "h", "=" >> \o hash
        ELSE << ",hash=" >> \o hash)

\* %%dex:<fields>%%
FieldAnnotation(contactId, memoId, hash) ==
  << "%%dex:" >> \o FieldList(contactId, memoId, hash) \o << "%%" >>

\* Documents of one block whose annotation holds any subset of the fields.
SubsetDocs ==
  {BlockDoc(k, l, FieldAnnotation(c, m, g), r, b) :
     k \in {<< >>, << "-", " " >>},
     l \in {DexLink(<< "c1" >>), VaultLink},
     r \in {<< >>, << " ", "a" >>},
     b \in {<< >>, << Note >>},
     c \in {<< >>, << "c1" >>},
     m \in {<< >>, << "m1" >>},
     g \in {<< >>, << "z" >>}}

InitSubsets ==
  /\ doc \in SubsetDocs
  /\ buttons = createSyncButtonDecorations(doc)
  /\ remote = {}
  /\ created = 0
  /\ sync = [i \in Syncs |-> Idle]
  /\ starts = 0
  /\ edits = 0
  /\ syncStates = NoStates
  /\ profiles = {}
  /\ manager = NoManager
  /\ fetch = NoFetch
  /\ auto = NoAuto

SpecSubsets == InitSubsets /\ [][NextClassifier]_vars

\* C24: for every subset of the fields contact-id, memo-id and hash, a start
\* line that holds the annotation with these fields is parsed to exactly
\* these fields, the others being absent: by the pattern, and in the memo id
\* and the stored hash of the block.
C24_ParseReturnsPresentFields ==
  \A c \in {<< >>, << "c1" >>}, m \in {<< >>, << "m1" >>}, g \in {<< >>, << "z" >>} :
     (\E p \in 1..Len(doc[1]) : LitAt(doc[1], p, FieldAnnotation(c, m, g)))
        => /\ MEMO_ID_PATTERN(doc[1]).ok
           /\ MEMO_ID_PATTERN(doc[1]).g1 = c
           /\ MEMO_ID_PATTERN(doc[1]).g2 = m
           /\ MEMO_ID_PATTERN(doc[1]).g3 = g
           /\ detectContentBlock(doc, 0).memoId = m
           /\ detectContentBlock(doc, 0).storedHash = g
           /\ detectContentBlock(doc, 0).hasExistingMemo = (m # << >>)

\* ------------------------------------------------------------------------
\* Properties of the first annotation of a mention
\* ------------------------------------------------------------------------

\* No link of the contact on line s has an annotation behind it.
NotAnnotatedYet(s, contact) ==
  \A l \in LinkEnds(s, contact) :
     ~(RunEnd(s, l, "\\s") <= Len(s) /\ s[RunEnd(s, l, "\\s")] = "%%dex:")

\* The text of line s from position e on is empty, or it is one space that is
\* the end of the line or stands before a character that is no space.
OneSpaceFrom(s, e) ==
  e <= Len(s) => (s[e] = " " /\ (e + 1 <= Len(s) => s[e + 1] # " "))

\* C25: when a sync writes the annotation for a mention that had none, the
\* annotation stands directly behind the mention's link, and exactly one
\* space stands between it and the text that follows on the line, whether
\* or not a space followed the link before.
C25_InsertedWithOneSpace ==
  [][\A i \in Syncs :
        (Writes(i) /\ NotAnnotatedYet(StartLineOf(sync[i]), sync[i].contact))
           => \E l \in LinkEnds(StartLineOf(sync[i]), sync[i].contact) :
                 /\ MemoMatchAt(doc'[sync[i].lineNumber + 1], l).ok
                 /\ OneSpaceFrom(doc'[sync[i].lineNumber + 1],
                                 MemoMatchAt(doc'[sync[i].lineNumber + 1], l).end)]_vars


\* ---------------------------------------------------------------------------
\* Properties of a click on the inline button
\* ---------------------------------------------------------------------------

\* The button shows synced and its transient state is neither syncing nor
\* error.
SyncedAndCalm(b) ==
  b.syncStatus = "synced" /\ StateOf(syncStates, b.line) \notin {"syncing", "error"}

\* Call i is started by a click in this step.
ClickStarts(i) ==
  /\ starts' = starts + 1
  /\ sync'[i].seq = starts'
  /\ sync'[i].clicked

\* C26: a click on the button of a block whose content-based status is synced,
\* while its transient state is neither syncing nor error, opens the profile
\* of the contact and starts no sync and makes no remote call; a click in any
\* other status starts a sync of the block of that button: a step that opens a
\* profile is a click on a synced, calm button and leaves the syncs and the
\* remote service alone, and a sync started by a click is the sync of a button
\* that is not synced and calm, for the line and the contact of that button.
C26_ClickOpensProfileOrSyncs ==
  [][ /\ (profiles' # profiles =>
            /\ \E b \in buttons : SyncedAndCalm(b) /\ profiles' = profiles \cup {b.contact}
            /\ sync' = sync /\ starts' = starts /\ remote' = remote /\ doc' = doc)
      /\ \A i \in Syncs :
           ClickStarts(i) =>
             \E b \in buttons :
               /\ ~SyncedAndCalm(b)
               /\ sync'[i].lineNumber = b.line
               /\ sync'[i].contact = b.contact ]_vars

\* A profile was opened by a click, and a click on a button that needed a
\* sync has made its remote call.
C26_Witness ==
  /\ profiles # {}
  /\ \E i \in Syncs : sync[i].clicked /\ sync[i].calls # << >>


\* ---------------------------------------------------------------------------
\* The auto-sync: the modify handler, the debounce timer and the runs of
\* performAutoSync
\* ---------------------------------------------------------------------------

Item == << "-", " " >>

\* A list item that mentions contact id, by the state of its annotation:
\* written with the link, with a memo id and no hash, with a hash of other
\* content, with the hash of its content.
AutoLine(kind, id, memo) ==
  IF kind = 1 THEN Item \o DexLink(id) \o ContactOnly(id) \o << " ", "a" >>
  ELSE IF kind = 2
  THEN Item \o DexLink(id) \o << "%%dex:", "contact-id=" >> \o id \o << ",memo-id=" >> \o memo \o << "%%" >>
  ELSE IF kind = 3 THEN Item \o DexLink(id) \o DexComment(id, memo, << "z" >>)
  ELSE Item \o DexLink(id) \o DexComment(id, memo, ContentHash(Item \o DexLink(id)))

\* A line that mentions contact id twice, by a vault link and by a Dex URL
\* link, each with its annotation.
TwiceLine(id) ==
  VaultLink \o ContactOnly(id) \o << " " >> \o DexLink(id) \o ContactOnly(id)

\* The initial documents of the auto-sync: one or two list items, the first
\* for c1, the second for c2, with the memos their annotations name; a line
\* that mentions c1 twice.
AutoDocs ==
  { [doc |-> << TwiceLine(<< "c1" >>) >>, remote |-> {}] }
  \cup
  { [doc |-> << AutoLine(k, << "c1" >>, << "m1" >>) >>,
     remote |-> IF k = 1 THEN {} ELSE {"m1"}] : k \in 1..4 }
  \cup
  { [doc |-> << AutoLine(k[1], << "c1" >>, << "m1" >>), AutoLine(k[2], << "c2" >>, << "m2" >>) >>,
     remote |-> (IF k[1] = 1 THEN {} ELSE {"m1"}) \cup (IF k[2] = 1 THEN {} ELSE {"m2"})] :
    k \in (1..4) \X (1..4) }

InitAuto ==
  /\ \E d \in AutoDocs :
        /\ doc = d.doc
        /\ buttons = createSyncButtonDecorations(d.doc)
        /\ remote = d.remote
        /\ created = 2
  /\ sync = [i \in Syncs |-> Idle]
  /\ starts = 0
  /\ edits = 0
  /\ syncStates = NoStates
  /\ profiles = {}
  /\ manager = NoManager
  /\ fetch = NoFetch
  /\ auto = [NoAuto EXCEPT !.enabled = TRUE]

\* The lines, from line from on, for which the loop of performAutoSync calls
\* syncContactMemo: the start lines of the tracked blocks that should sync and
\* whose first comment names a loaded contact.
LinesToSync(d, from) ==
  {l \in TrackedFrom(d, from, {}) : ShouldSync(d, l) /\ AutoContact(d[l + 1]) \in Contacts}

\* The loop of performAutoSync from line from on, up to its next await or to
\* its end; a is the auto-sync at that moment, l the first line to sync.
AutoRunTo(a, l) ==
  \E i \in Syncs :
     /\ StartCall(i, l, AutoContact(doc[l + 1]), FALSE)
     /\ auto' = [a EXCEPT !.line = l, !.slot = i,
                          !.endLine = getContentBlock(doc, l).endLine,
                          !.passed = @ \cup {l}]
     /\ UNCHANGED syncStates

AutoRunEnds(a) ==
  /\ auto' = [a EXCEPT !.line = -1, !.slot = 0, !.endLine = -1]
  /\ UNCHANGED << doc, buttons, remote, created, sync, starts, edits, syncStates, profiles, manager, fetch >>

AutoRunFrom(a, from) ==
  IF LinesToSync(doc, from) = {} THEN AutoRunEnds(a)
  ELSE AutoRunTo(a, MinOf(LinesToSync(doc, from)))

\* unsyncedCount of performAutoSync, from countMemos, is not 0.
CountsUnsynced(d) == \E l \in TrackedFrom(d, 0, {}) : ~CountsAsSynced(d, l)

\* The document d with every memo id replaced by the same word.
Shape(d) ==
  [l \in 1..Len(d) |->
     [k \in 1..Len(d[l]) |->
        IF d[l][k] \in {MemoIds[n] : n \in 1..Len(MemoIds)} THEN "m" ELSE d[l][k]]]

\* The auto-sync after its timer fired: autoSyncDebounceTimer = null.
TimerFired(a) == [a EXCEPT !.timer = FALSE]

\* The auto-sync when a run starts on document d: a run that finds lines to
\* sync is recorded with the document it started from.
RunStarted(a, d) ==
  IF LinesToSync(d, 0) = {} THEN a
  ELSE [a EXCEPT !.again = @ \/ Shape(d) \in a.seen, !.seen = @ \cup {Shape(d)}]

\* The callback of the timer of scheduleAutoSync: performAutoSync runs up to
\* its first await, or returns, and the timer is cleared.  A run starts when
\* the run before it has ended.
autoSyncTimer ==
  /\ auto.timer
  /\ auto.line = -1
  /\ IF CountsUnsynced(doc) THEN AutoRunFrom(RunStarted(TimerFired(auto), doc), 0)
     ELSE AutoRunEnds(TimerFired(auto))

\* performAutoSync behind its await: the call it waited for has returned or
\* thrown, the loop continues behind the end of the block it read.
autoSyncResume ==
  /\ auto.line # -1
  /\ sync[auto.slot].pc \in {"returned", "thrown"}
  /\ AutoRunFrom(auto, auto.endLine + 1)

\* A response of the remote service to a call in flight.
Response ==
  \E i \in Syncs : UpdateOk(i) \/ UpdateFails(i) \/ CreateOk(i) \/ CreateFails(i)

NextAuto ==
  \/ \E ln \in 1..Len(doc) : UserEdit(ln, "b")
  \/ autoSyncTimer
  \/ autoSyncResume
  \/ \E i \in Syncs : UpdateOk(i)
  \/ \E i \in Syncs : UpdateFails(i)
  \/ \E i \in Syncs : CreateOk(i)
  \/ \E i \in Syncs : CreateFails(i)

\* The timer fires, a run continues when its call has ended, and the remote
\* service answers: none of them waits for the user.
SpecAuto ==
  /\ InitAuto /\ [][NextAuto]_vars
  /\ WF_vars(autoSyncTimer) /\ WF_vars(autoSyncResume) /\ WF_vars(Response)

\* updateLinkWithContactId of the hover card when it ends without a change of
\* the document (no active markdown view, no editor, or no link that
\* matches): suppressNextAutoSync has been called, nothing else has happened.
suppressNextAutoSync ==
  /\ ~auto.skipNext
  /\ auto' = [auto EXCEPT !.skipNext = TRUE]
  /\ UNCHANGED << doc, buttons, remote, created, sync, starts, edits,
                  syncStates, profiles, manager, fetch >>

\* The auto-sync with a hover card that adds contacts.
NextDebounce ==
  \/ suppressNextAutoSync
  \/ \E ln \in 1..Len(doc) : UserEdit(ln, "b")
  \/ autoSyncTimer
  \/ autoSyncResume
  \/ \E i \in Syncs : UpdateOk(i)
  \/ \E i \in Syncs : UpdateFails(i)
  \/ \E i \in Syncs : CreateOk(i)
  \/ \E i \in Syncs : CreateFails(i)

SpecDebounce ==
  /\ InitAuto /\ [][NextDebounce]_vars
  /\ WF_vars(autoSyncTimer) /\ WF_vars(autoSyncResume) /\ WF_vars(Response)

\* ---------------------------------------------------------------------------
\* Properties of the auto-sync
\* ---------------------------------------------------------------------------

\* Nothing is scheduled, no run is in progress and no call is in flight:
\* nothing happens until the user acts.
Quiet == ~auto.timer /\ auto.line = -1 /\ \A i \in Syncs : ~InFlight(i)

\* The classifier reports the block of button b as not-synced or
\* needs-resync and the contact of its annotation is loaded.
NeedsSync(b) ==
  b.syncStatus \in {"not-synced", "needs-resync"} /\ b.contact \in Contacts

\* C27: with auto-sync enabled, once the modifications of the document have
\* stopped, every block that the classifier reports as not-synced or
\* needs-resync and whose contact is loaded is passed to syncContactMemo by an
\* auto-sync run without any user action: when nothing is left to happen
\* after a modification, no such block is left that no run has passed since
\* the user's last modification.
C27_AutoSyncPassesEveryBlock ==
  (Quiet /\ edits > 0) => \A b \in buttons : NeedsSync(b) => b.line \in auto.passed


\* ---------------------------------------------------------------------------
\* Properties of the memo id a sync works with
\* ---------------------------------------------------------------------------

\* The positions of the annotations of line s that name the contact.
OwnAnnotations(s, contact) ==
  {p \in 1..Len(s) : MemoMatchAt(s, p).ok /\ Trim(MemoMatchAt(s, p).g1) = contact}

\* The memo id of the contact's own annotation on line s, << >> without one.
OwnMemoId(s, contact) ==
  IF OwnAnnotations(s, contact) = {} THEN << >>
  ELSE MemoMatchAt(s, MinOf(OwnAnnotations(s, contact))).g2

\* Call i starts in this step.
Starts(i) == starts' = starts + 1 /\ sync'[i].seq = starts'

\* C28: the memo id a sync for contact C treats as C's existing memo, which
\* it passes to the remote update and records in C's annotation, is the memo
\* id of C's own annotation on the start line, never that of the annotation
\* of another contact mentioned on the line.
C28_SyncUsesOwnMemoId ==
  [][\A i \in Syncs :
       Starts(i) =>
         sync'[i].existingMemoId = OwnMemoId(doc[sync'[i].lineNumber + 1], sync'[i].contact)]_vars


\* ---------------------------------------------------------------------------
\* Lines inserted and deleted while a sync is in progress
\* ---------------------------------------------------------------------------

\* The lines of the initial documents: a list item of text, the mention of a
\* contact as the plugin inserts it, a link to a note.
TextItem == Item \o << "a" >>
MentionItem(id) == Item \o DexLink(id) \o ContactOnly(id)
NoteItem == Item \o << "[", "[", "b", "]", "]" >>

LineDocs ==
  { << TextItem, MentionItem(<< "c1" >>), TextItem >>,
    << TextItem, MentionItem(<< "c1" >>), MentionItem(<< "c2" >>) >>,
    << MentionItem(<< "c2" >>), MentionItem(<< "c1" >>), TextItem >>,
    << NoteItem, MentionItem(<< "c1" >>), NoteItem >> }

InitLines ==
  /\ doc \in LineDocs
  /\ buttons = createSyncButtonDecorations(doc)
  /\ remote = {}
  /\ created = 0
  /\ sync = [i \in Syncs |-> Idle]
  /\ starts = 0
  /\ edits = 0
  /\ syncStates = NoStates
  /\ profiles = {}
  /\ manager = NoManager
  /\ fetch = NoFetch
  /\ auto = NoAuto

\* The calls after the user's change of the lines: at follows the start
\* line, which moves by shift when it stands at or behind line ln and is gone
\* when the user deleted it.
Shifted(c, ln, shift, gone) ==
  [c EXCEPT !.clean = FALSE, !.fresh = FALSE,
            !.at = IF @ = -1 \/ @ < ln THEN @
                   ELSE IF gone /\ @ = ln THEN -1 ELSE @ + shift]

\* The user inserts a list item of text before line ln (0-based), or behind
\* the last line.
UserInsertsLine(ln) ==
  /\ edits < MaxEdits
  /\ doc' = SubSeq(doc, 1, ln) \o << TextItem >> \o SubSeq(doc, ln + 1, Len(doc))
  /\ buttons' = createSyncButtonDecorations(doc')
  /\ edits' = edits + 1
  /\ sync' = [j \in Syncs |-> Shifted(sync[j], ln, 1, FALSE)]
  /\ syncStates' = ResetStates(syncStates)
  /\ auto' = UserModified(auto, doc, doc')
  /\ UNCHANGED << remote, created, starts, profiles, manager, fetch >>

\* The user deletes line ln (0-based); the lines the calls in flight were
\* started for stay inside the document.
UserDeletesLine(ln) ==
  /\ edits < MaxEdits
  /\ \A j \in Syncs : InFlight(j) => sync[j].lineNumber < Len(doc) - 1
  /\ doc' = SubSeq(doc, 1, ln) \o SubSeq(doc, ln + 2, Len(doc))
  /\ buttons' = createSyncButtonDecorations(doc')
  /\ edits' = edits + 1
  /\ sync' = [j \in Syncs |-> Shifted(sync[j], ln, -1, TRUE)]
  /\ syncStates' = ResetStates(syncStates)
  /\ auto' = UserModified(auto, doc, doc')
  /\ UNCHANGED << remote, created, starts, profiles, manager, fetch >>

NextLines ==
  \/ \E i \in Syncs, b \in buttons : handleSyncClick(i, b)
  \/ \E ln \in 0..Len(doc) : UserInsertsLine(ln)
  \/ \E ln \in 0..(Len(doc) - 1) : UserDeletesLine(ln)
  \/ \E i \in Syncs : UpdateOk(i)
  \/ \E i \in Syncs : UpdateFails(i)
  \/ \E i \in Syncs : CreateOk(i)
  \/ \E i \in Syncs : CreateFails(i)

SpecLines == InitLines /\ [][NextLines]_vars

\* ---------------------------------------------------------------------------
\* Properties of a sync whose lines move
\* ---------------------------------------------------------------------------

\* Call i returns in this step from its remote call.
Returns(i) == InFlight(i) /\ sync'[i].pc = "returned"

\* C29: the annotation written at the end of a sync lands on the line that
\* holds the synced mention, also when lines were inserted or deleted above
\* it while the remote call was in flight: the step that ends the call
\* changes no other line, and while the line of the mention exists it holds
\* afterwards the contact's annotation with the returned memo id.
C29_AnnotationLandsOnMentionLine ==
  [][\A i \in Syncs :
       Returns(i) =>
         /\ \A l \in 1..Len(doc) : doc'[l] # doc[l] => l = sync[i].at + 1
         /\ sync[i].at # -1 =>
              OwnMemoId(doc'[sync[i].at + 1], sync[i].contact) = sync'[i].result]_vars


\* ---------------------------------------------------------------------------
\* Properties of the hash a sync writes
\* ---------------------------------------------------------------------------

\* The hash of the contact's own annotation on line s, << >> without one.
OwnHash(s, contact) ==
  IF OwnAnnotations(s, contact) = {} THEN << >>
  ELSE MemoMatchAt(s, MinOf(OwnAnnotations(s, contact))).g3

\* The content of the block of call c, as the document holds it now, is not
\* the content the call read before its remote call.
EditedInFlight(c) == getContentBlock(doc, c.lineNumber).content # c.fullContent

\* C30: the hash a sync writes is the hash of the block content it read
\* before the remote call and sent to the remote service, not that of the
\* text at rewrite time; when the content of the block was edited while the
\* remote call was in flight, the block is classified needs-resync once the
\* sync has completed.
C30_WritesHashOfContentRead ==
  [][\A i \in Syncs :
       Writes(i) =>
         /\ OwnHash(doc'[sync[i].lineNumber + 1], sync[i].contact)
              = ContentHash(sync[i].fullContent)
         /\ EditedInFlight(sync[i]) =>
              findContentBlockEnd(doc', sync[i].lineNumber).syncStatus = "needs-resync"]_vars


\* C31: with auto-sync enabled and no further edits of the user, the cycle of
\* auto-sync run, rewrite of the annotation, modify event and newly scheduled
\* run ends after finitely many runs: no run starts to sync from a document
\* from which, the memo ids aside, an earlier run since the user's last edit
\* started to sync; such a run does what the earlier one did, and the cycle
\* goes on for as long as the syncs succeed.
C31_AutoSyncCycleEnds == ~auto.again

\* C32: scheduling an auto-sync cancels the pending one, and a burst of
\* modifications leads to exactly one auto-sync run, started after the last
\* modification of the burst: with auto-sync enabled, every modification the
\* user makes leaves a timer pending, the one that starts that run.
C32_ModificationSchedulesRun ==
  [][(edits' = edits + 1 /\ doc' # doc /\ auto.enabled) => auto'.timer]_vars


\* ---------------------------------------------------------------------------
\* Properties of the button states
\* ---------------------------------------------------------------------------

\* The sync that button click started in slot i settles in this step: its
\* remote call ends and syncContactMemo returns or throws.
Settles(i) ==
  /\ sync[i].clicked
  /\ InFlight(i)
  /\ sync'[i].pc \in {"returned", "thrown"}

\* The state that handleSyncClick dispatches for the sync that settles in
\* this step.
SettledState(i) == IF sync'[i].pc = "returned" THEN "synced" ELSE "error"

\* C33: on every change of the document, the state of a line is reset to idle
\* if it was synced or error and is left as it was if it was syncing; a state
\* update that comes with the change is applied after the reset and
\* determines the resulting state of its line.
C33_DocChangeResetsStates ==
  [][doc' # doc =>
       /\ \A l \in DOMAIN syncStates :
             (\A i \in Syncs : ~(Settles(i) /\ sync[i].lineNumber = l)) =>
                StateOf(syncStates', l) =
                  (IF syncStates[l] = "syncing" THEN "syncing" ELSE "idle")
       /\ \A i \in Syncs :
             Settles(i) => StateOf(syncStates', sync[i].lineNumber) = SettledState(i)]_vars

\* A change of the document has left one line syncing while the sync of
\* another line, started by a click as well, had returned before it: that
\* line is back to idle.
C33_Witness ==
  \E i, j \in Syncs :
     /\ InFlight(i) /\ sync[i].clicked /\ ~sync[i].clean
     /\ StateOf(syncStates, sync[i].lineNumber) = "syncing"
     /\ sync[j].pc = "returned" /\ sync[j].clicked /\ ~sync[j].fresh
     /\ sync[j].lineNumber \in DOMAIN syncStates
     /\ syncStates[sync[j].lineNumber] = "idle"

\* C34: every click that puts a button into the syncing state is followed,
\* once the sync settles, by a transition of the state of that line to synced
\* after a success and to error after a failure, and no line stays syncing
\* after its sync has settled: a line is syncing only while the sync that a
\* click on it started is in progress.
C34_SyncingEndsWithTheSync ==
  /\ [](\A l \in DOMAIN syncStates :
          syncStates[l] = "syncing" =>
             \E i \in Syncs : InFlight(i) /\ sync[i].clicked /\ sync[i].lineNumber = l)
  /\ [][\A i \in Syncs :
          Settles(i) => StateOf(syncStates', sync[i].lineNumber) = SettledState(i)]_vars

\* A sync started by a click has failed and its line shows error, and one
\* has succeeded and its line shows synced.
C34_Witness ==
  \E i, j \in Syncs :
     /\ sync[i].clicked /\ sync[i].pc = "thrown"
     /\ StateOf(syncStates, sync[i].lineNumber) = "error"
     /\ sync[j].clicked /\ sync[j].pc = "returned" /\ sync[j].calls # << >>
     /\ StateOf(syncStates, sync[j].lineNumber) = "synced"


\* ---------------------------------------------------------------------------
\* The contact manager
\* ---------------------------------------------------------------------------

MaxWaiting == 2   \* loadContacts calls that wait for one load

\* The contacts the contact creation modal creates.
NewContacts == {"n1", "n2"}

\* The contact list of the remote service at first.
ServiceContacts == << "k1" >>

\* The number of times contact c appears in list.
Times(list, c) == Cardinality({k \in 1..Len(list) : list[k] = c})

\* getContacts() of the manager m.
getContacts(m) == m.contacts

\* A variant of LoadEnded that leaves the promise in loadContactsPromise.
LoadStaysMarked(m, how) ==
  [m EXCEPT !.waiting = 0, !.load = "none", !.loadAnswer = << >>, !.ended = how]

\* The end of loadContacts after the promise of doLoadContacts has settled:
\* the finally block clears loadContactsPromise, and the calls that waited
\* for the promise complete.
LoadEnded(m, how) ==
  [m EXCEPT !.loadContactsPromise = FALSE, !.waiting = 0, !.load = "none",
            !.loadAnswer = << >>, !.ended = how]

\* refreshContactsInBackground up to its await: nothing within the interval
\* of the last background refresh.
refreshContactsInBackground(m) ==
  IF m.recent THEN m ELSE [m EXCEPT !.recent = TRUE, !.background = "requested"]

\* doLoadContacts up to its await or its return: a fresh cache is copied
\* into contacts and a background refresh may start; otherwise
\* fetchAllContacts is called.
doLoadContacts(m) ==
  IF Len(m.contactCache) > 0 /\ m.fresh
  THEN refreshContactsInBackground(
         [m EXCEPT !.contacts = m.contactCache, !.shared = FALSE])
  ELSE [m EXCEPT !.load = "requested", !.loadContactsPromise = TRUE,
                 !.waiting = @ + 1]

\* loadContacts of the manager m: with a load in progress the call waits for
\* its promise, otherwise it starts doLoadContacts.
LoadContacts(m) ==
  IF m.loadContactsPromise THEN [m EXCEPT !.waiting = @ + 1] ELSE doLoadContacts(m)

\* The variables that the contact manager leaves alone.
ManagerOnly ==
  UNCHANGED << doc, buttons, remote, created, sync, starts, edits, syncStates,
               profiles, auto, fetch >>

loadContacts ==
  /\ manager.waiting < MaxWaiting
  /\ manager' = LoadContacts(manager)
  /\ ManagerOnly

\* forceRefreshContacts: the cache is emptied and loadContacts is called.
forceRefreshContacts ==
  /\ manager.waiting < MaxWaiting
  /\ manager' = LoadContacts([manager EXCEPT !.contactCache = << >>, !.shared = FALSE,
                                             !.fresh = FALSE, !.recent = FALSE])
  /\ ManagerOnly

\* The remote service answers the request of doLoadContacts with its
\* contact list.
LoadAnswered ==
  /\ manager.load = "requested"
  /\ manager' = [manager EXCEPT !.load = "answered", !.loadAnswer = manager.service]
  /\ ManagerOnly

\* doLoadContacts after fetchAllContacts returned: contacts is the list and
\* contactCache a copy of it.
LoadOk ==
  /\ manager.load = "answered"
  /\ manager' = LoadEnded([manager EXCEPT !.contacts = manager.loadAnswer,
                                          !.contactCache = manager.loadAnswer,
                                          !.shared = FALSE, !.fresh = TRUE], "ok")
  /\ ManagerOnly

\* doLoadContacts after fetchAllContacts threw: contacts is a copy of the
\* cache if the cache holds contacts.
LoadFails ==
  /\ manager.load = "requested"
  /\ manager' = LoadEnded(IF Len(manager.contactCache) > 0
                          THEN [manager EXCEPT !.contacts = manager.contactCache,
                                               !.shared = FALSE]
                          ELSE manager, "failed")
  /\ ManagerOnly

\* The remote service answers the request of refreshContactsInBackground.
BackgroundAnswered ==
  /\ manager.background = "requested"
  /\ manager' = [manager EXCEPT !.background = "answered", !.answer = manager.service]
  /\ ManagerOnly

\* refreshContactsInBackground after fetchAllContacts returned:
\* processedContacts is assigned to contactCache and to contacts.
BackgroundOk ==
  /\ manager.background = "answered"
  /\ manager' = [manager EXCEPT !.contactCache = manager.answer,
                                !.contacts = manager.answer, !.shared = TRUE,
                                !.fresh = TRUE, !.background = "none", !.answer = << >>]
  /\ ManagerOnly

\* refreshContactsInBackground after fetchAllContacts threw.
BackgroundFails ==
  /\ manager.background = "requested"
  /\ manager' = [manager EXCEPT !.background = "none"]
  /\ ManagerOnly

\* addContactToCache(contact): the contact is pushed to contacts and to
\* contactCache, twice to the one array if the two fields share it.
addContactToCache(m, contact) ==
  [m EXCEPT !.contacts = IF m.shared THEN @ \o << contact, contact >>
                         ELSE Append(@, contact),
            !.contactCache = IF m.shared THEN @ \o << contact, contact >>
                             ELSE Append(@, contact),
            !.added = @ \cup {contact}]

\* The contact creation modal: the remote service creates the contact and
\* the callback passes it to addContactToCache.
createContact(contact) ==
  /\ contact \notin manager.added
  /\ manager' = addContactToCache(
                  [manager EXCEPT !.service = Append(@, contact)], contact)
  /\ ManagerOnly

\* CONTACT_CACHE_MAX_AGE passes since the cache was filled.
CacheExpires ==
  /\ manager.fresh
  /\ manager' = [manager EXCEPT !.fresh = FALSE]
  /\ ManagerOnly

\* BACKGROUND_REFRESH_INTERVAL passes since the last background refresh,
\* which has ended.
IntervalPasses ==
  /\ manager.recent
  /\ manager.background = "none"
  /\ manager' = [manager EXCEPT !.recent = FALSE]
  /\ ManagerOnly

InitManager ==
  /\ doc = << >>
  /\ buttons = {}
  /\ remote = {}
  /\ created = 0
  /\ sync = [i \in Syncs |-> Idle]
  /\ starts = 0
  /\ edits = 0
  /\ syncStates = NoStates
  /\ profiles = {}
  /\ auto = NoAuto
  /\ fetch = NoFetch
  /\ manager = [NoManager EXCEPT !.service = ServiceContacts]

NextManager ==
  \/ loadContacts
  \/ forceRefreshContacts
  \/ LoadAnswered
  \/ LoadOk
  \/ LoadFails
  \/ BackgroundAnswered
  \/ BackgroundOk
  \/ BackgroundFails
  \/ \E c \in NewContacts : createContact(c)
  \/ CacheExpires
  \/ IntervalPasses

SpecManager == InitManager /\ [][NextManager]_vars

\* ---------------------------------------------------------------------------
\* Properties of the contact manager
\* ---------------------------------------------------------------------------

\* A call of loadContacts or of forceRefreshContacts that does not complete
\* at once.
CallWaits == manager'.waiting = manager.waiting + 1

\* C35: while a contact load is in progress, further loadContacts calls start
\* no new load and complete when the load in progress completes; the marker
\* loadContactsPromise is cleared when that load ends, after a success and
\* after a failure, so that a later loadContacts call loads again.
C35_OneLoadAtATime ==
  /\ [](/\ manager.loadContactsPromise <=> manager.load # "none"
        /\ manager.waiting > 0 => manager.loadContactsPromise)
  /\ [][/\ (manager.loadContactsPromise /\ CallWaits) =>
              /\ manager'.load = manager.load
              /\ manager'.loadAnswer = manager.loadAnswer
              /\ manager'.loadContactsPromise
        /\ (manager.load # "none" /\ manager'.load = "none") =>
              /\ manager'.waiting = 0
              /\ ~manager'.loadContactsPromise
              /\ manager'.ended \in {"ok", "failed"}
        /\ (manager.load = "none" /\ CallWaits) => manager'.load = "requested"]_vars

\* After a load that failed, a load is in progress again and a further call
\* waits for it.
C35_Witness ==
  /\ manager.ended = "failed"
  /\ manager.load # "none"
  /\ manager.waiting = 2

\* C36: after addContactToCache(c), c appears exactly once in the list that
\* getContacts() returns, in every state the contact manager reaches.
C36_AddedContactOnce ==
  \A c \in manager.added : Times(getContacts(manager), c) = 1


\* ---------------------------------------------------------------------------
\* Properties of the cleanup
\* ---------------------------------------------------------------------------

\* The document after cleanupDexTags, as the command sets it.
CleanedDoc(d) ==
  SplitLines(Relex(TrimLineEnds(MEMO_ID_CLEANUP(JoinLines(d)), 1, << >>), 1, << >>),
             1, << << >> >>)

\* The step is one of cleanupDexTags.
CleanupStep ==
  /\ MEMO_ID_CLEANUP(JoinLines(doc)) # JoinLines(doc)
  /\ edits' = edits + 1
  /\ doc' = CleanedDoc(doc)

\* C37: the cleanup changes nothing but annotations and white space at the
\* end of lines: the document keeps the number and the order of its lines,
\* the blank lines among them, and each line is the line it was without its
\* annotations and without the white space at its end.
C37_CleanupKeepsLines ==
  [][CleanupStep =>
       /\ Len(doc') = Len(doc)
       /\ \A l \in 1..Len(doc) :
             doc'[l] = Relex(TrimEnd(MEMO_ID_CLEANUP(doc[l])), 1, << >>)]_vars


\* ---------------------------------------------------------------------------
\* Properties of the result of block detection
\* ---------------------------------------------------------------------------

\* The result r of block detection from line s (0-based) of document d keeps
\* within the document and within the lines it covers.  The indentation of a
\* line is the index of its first character that is not white space, as the
\* detector computes it, -1 for a line without one.
BlockWithin(d, s, r) ==
  /\ s <= r.endLine
  /\ r.endLine < Len(d)
  /\ Len(r.contentLines) >= 1
  /\ Len(r.contentLines) <= r.endLine - s + 1
  /\ \A j \in (s + 1)..r.endLine :
        /\ ~Blank(d[j + 1])
        /\ Indentation(d[j + 1]) >= SearchNonSpace(d[s + 1])

\* C38: for every document and every start line, block detection returns
\* startLine <= endLine < totalLines, at least one content line and at most
\* endLine - startLine + 1 of them, no blank line among the lines
\* startLine+1..endLine, and each of these lines is indented at least as much
\* as the start line.
C38_BlockWithinDocument ==
  \A s \in 0..(Len(doc) - 1) : BlockWithin(doc, s, detectContentBlock(doc, s))

\* A block of several lines from a start line that is not blank, and a
\* block whose only content line is empty.
C38_Witness ==
  /\ \E s \in 0..(Len(doc) - 1) :
        /\ ~Blank(doc[s + 1])
        /\ detectContentBlock(doc, s).endLine > s + 1
  /\ \E s \in 0..(Len(doc) - 1) :
        detectContentBlock(doc, s).contentLines = << << >> >>


\* ---------------------------------------------------------------------------
\* fetchAllContacts
\* ---------------------------------------------------------------------------

MaxContacts == 6   \* contacts the remote service holds
MaxLimit    == 3   \* the page size CONTACTS_PAGE_SIZE

\* The smaller of two numbers.
Min(a, b) == IF a < b THEN a ELSE b

\* The contacts the remote service returns for /contacts?limit=&offset=.
Page(service, limit, offset) ==
  SubSeq(service, offset + 1, Min(offset + limit, Len(service)))

\* A variant of HasMore that goes on until a page is empty.
HasMoreUntilEmpty(contacts, limit) == Len(contacts) > 0

\* hasMore = contacts.length === limit
HasMore(contacts, limit) == Len(contacts) = limit

\* The call f of fetchAllContacts after fetchContacts returned contacts for
\* its request: they are pushed to allContacts, the offset advances, and the
\* loop goes on with the next request or the call returns.
Fetched(f, contacts) ==
  [f EXCEPT !.allContacts = @ \o contacts,
            !.offset = @ + f.limit,
            !.requests = Append(@, f.offset),
            !.pc = IF HasMore(contacts, f.limit) THEN "request" ELSE "returned"]

\* The variables that fetchAllContacts leaves alone.
FetchOnly ==
  UNCHANGED << doc, buttons, remote, created, sync, starts, edits, syncStates,
               profiles, auto, manager >>

\* fetchContacts(limit, offset) returns the page.
fetchContactsOk ==
  /\ fetch.pc = "request"
  /\ fetch' = Fetched(fetch, Page(fetch.service, fetch.limit, fetch.offset))
  /\ FetchOnly

\* fetchContacts(limit, offset) throws: the catch block throws the error
\* again, and allContacts is not returned.
fetchContactsFails ==
  /\ fetch.pc = "request"
  /\ fetch' = [fetch EXCEPT !.pc = "thrown", !.requests = Append(@, fetch.offset)]
  /\ FetchOnly

\* fetchAllContacts is called for a remote service with contacts 1..n and
\* the page size limit.
InitFetch ==
  /\ doc = << >>
  /\ buttons = {}
  /\ remote = {}
  /\ created = 0
  /\ sync = [i \in Syncs |-> Idle]
  /\ starts = 0
  /\ edits = 0
  /\ syncStates = NoStates
  /\ profiles = {}
  /\ auto = NoAuto
  /\ manager = NoManager
  /\ \E n \in 0..MaxContacts, limit \in 1..MaxLimit :
        fetch = [NoFetch EXCEPT !.service = [k \in 1..n |-> k],
                                !.limit = limit, !.pc = "request"]

NextFetch ==
  \/ fetchContactsOk
  \/ fetchContactsFails

\* Every request is answered or fails.
SpecFetch == InitFetch /\ [][NextFetch]_vars /\ WF_vars(NextFetch)

\* ---------------------------------------------------------------------------
\* Properties of fetchAllContacts
\* ---------------------------------------------------------------------------

\* The value fetchAllContacts returns.
Returned(f) == f.allContacts

\* C39: fetchAllContacts requests the pages at the offsets 0, limit,
\* 2*limit, ... and stops after the first page that holds fewer than limit
\* contacts; for every remote contact list it terminates, and it returns
\* every contact exactly once and in order; a page request that fails ends
\* the call with that error, without a list.
C39_FetchesEveryContactOnce ==
  /\ [](/\ \A k \in 1..Len(fetch.requests) : fetch.requests[k] = (k - 1) * fetch.limit
        /\ \A k \in 1..(Len(fetch.requests) - 1) :
              Len(Page(fetch.service, fetch.limit, fetch.requests[k])) = fetch.limit
        /\ fetch.pc = "returned" =>
              /\ Returned(fetch) = fetch.service
              /\ Len(Page(fetch.service, fetch.limit,
                          fetch.requests[Len(fetch.requests)])) < fetch.limit)
  /\ [][fetch.pc \in {"returned", "thrown"} => fetch' = fetch]_vars
  /\ [][(fetch.pc = "request" /\ fetch'.pc = "request") =>
           Len(Page(fetch.service, fetch.limit, fetch.offset)) = fetch.limit]_vars
  /\ <>(fetch.pc \in {"returned", "thrown"})

\* A fetch of several pages, the last of them empty, has returned.
C39_Witness ==
  /\ fetch.pc = "returned"
  /\ Len(fetch.requests) = 3
  /\ Len(fetch.service) = 2 * fetch.limit

====
